---------------------------- MODULE Spec2Model ----------------------------
(***************************************************************************)
(* A model of the maulstrom chess rules engine (chess with wormholes):    *)
(* bitboards as sets of squares, the attack tables, ray casting, the      *)
(* defense / blockable / compute calculators, the move tracer, the        *)
(* bit-packed BoardDelta and BoardState::next / BoardState::prev.         *)
(***************************************************************************)
EXTENDS Integers, Sequences, FiniteSets, TLC

VARIABLES
    state,      \* the BoardState at the cursor (ChessGame::cursor.state)
    index,      \* the halfmove index of the cursor (ChessGame::cursor.index)
    deltas,     \* the ordered move log (ChessGame::deltas)
    last        \* history: the last operation, the state it started from, its trace and delta

vars == <<state, index, deltas, last>>

(***************************************************************************)
(* Bounds of the model.                                                    *)
(***************************************************************************)
\* the longest move log explored
MaxPly == 1

(***************************************************************************)
(* Squares, ranks, files (square.rs).                                      *)
(***************************************************************************)
Squares == 0 .. 63

\* Option<Square>::None
NoSquare == 0 - 1

\* the all-squares mask BitBoard(!0)
FULL == Squares

rank_u8(sq) == sq \div 8

file_u8(sq) == sq % 8

Square_new(rank, file) == (rank * 8) + file

\* Square::next testing the rank only: a step off the a or h file lands on the next rank
Square_next_wrapping(sq, dr, df) ==
    LET r == rank_u8(sq) + dr
        i == sq + 8 * dr + df
    IN IF r >= 0 /\ r < 8 /\ i >= 0 /\ i < 64 THEN i ELSE NoSquare

\* Square::next: NoSquare when the rank or the file leaves the board
Square_next(sq, dr, df) ==
    LET r == rank_u8(sq) + dr
        f == file_u8(sq) + df
    IN IF r >= 0 /\ r < 8 /\ f >= 0 /\ f < 8 THEN Square_new(r, f) ELSE NoSquare

\* Square + (i8, i8): the square displaced by whole ranks and files, none off the board
Square_add(sq, dr, df) == Square_next(sq, dr, df)

Min(S) == CHOOSE x \in S : \A y \in S : x <= y

Max(S) == CHOOSE x \in S : \A y \in S : x >= y

(***************************************************************************)
(* Teams (team.rs).                                                        *)
(***************************************************************************)
Teams == {"White", "Black"}

Not(team) == IF team = "White" THEN "Black" ELSE "White"

pawn_dir(team) == IF team = "White" THEN 1 ELSE 0 - 1

back_rank(team) == IF team = "White" THEN 0 ELSE 7

pawn_rank(team) == IF team = "White" THEN 1 ELSE 6

(***************************************************************************)
(* The precomputed tables (module `cached`, generated once, read-only).    *)
(***************************************************************************)
KING_DELTAS == {<<0 - 1, 0 - 1>>, <<0 - 1, 0>>, <<0 - 1, 1>>, <<0, 0 - 1>>,
                <<0, 1>>, <<1, 0 - 1>>, <<1, 0>>, <<1, 1>>}

KNIGHT_DELTAS == {<<0 - 1, 0 - 2>>, <<1, 0 - 2>>, <<0 - 1, 2>>, <<1, 2>>,
                  <<0 - 2, 0 - 1>>, <<0 - 2, 1>>, <<2, 0 - 1>>, <<2, 1>>}

Steps(sq, ds) == {Square_next(sq, d[1], d[2]) : d \in ds} \ {NoSquare}

KING_MOVES == [sq \in Squares |-> Steps(sq, KING_DELTAS)]

KNIGHT_MOVES == [sq \in Squares |-> Steps(sq, KNIGHT_DELTAS)]

WHITE_PAWN_ATTACKS == [sq \in Squares |-> Steps(sq, {<<1, 0 - 1>>, <<1, 1>>})]

BLACK_PAWN_ATTACKS == [sq \in Squares |-> Steps(sq, {<<0 - 1, 0 - 1>>, <<0 - 1, 1>>})]

\* the eight directions of the Ray enum, as (rank, file) steps
Rays == {"PosPos", "NegNeg", "PosNeg", "NegPos", "PosZero", "NegZero", "ZeroPos", "ZeroNeg"}

RayStep(r) ==
    CASE r = "PosPos" -> <<1, 1>>
      [] r = "NegNeg" -> <<0 - 1, 0 - 1>>
      [] r = "PosNeg" -> <<1, 0 - 1>>
      [] r = "NegPos" -> <<0 - 1, 1>>
      [] r = "PosZero" -> <<1, 0>>
      [] r = "NegZero" -> <<0 - 1, 0>>
      [] r = "ZeroPos" -> <<0, 1>>
      [] r = "ZeroNeg" -> <<0, 0 - 1>>

\* RAY_<dir>_EXCLUSIVE: the full ray from a square to the board edge, source excluded
RAY_EXCLUSIVE ==
    [r \in Rays |-> [sq \in Squares |->
        {Square_next(sq, k * RayStep(r)[1], k * RayStep(r)[2]) : k \in 1 .. 7} \ {NoSquare}]]

\* BETWEEN_EXCLUSIVE: the squares strictly between two squares of one line
BETWEEN_EXCLUSIVE ==
    [a \in Squares |-> [b \in Squares |->
        UNION {RAY_EXCLUSIVE[r][a] \cap RAY_EXCLUSIVE[
                  CASE r = "PosPos" -> "NegNeg" [] r = "NegNeg" -> "PosPos"
                    [] r = "PosNeg" -> "NegPos" [] r = "NegPos" -> "PosNeg"
                    [] r = "PosZero" -> "NegZero" [] r = "NegZero" -> "PosZero"
                    [] r = "ZeroPos" -> "ZeroNeg" [] r = "ZeroNeg" -> "ZeroPos"][b]
               : r \in {q \in Rays : b \in RAY_EXCLUSIVE[q][a]}}]]

(***************************************************************************)
(* Masks (board.rs).  A BitBoard is the set of its squares.                *)
(***************************************************************************)
intersects(a, b) == a \cap b # {}

\* transmit that adds tx whether or not the masks meet
transmit_always(m, tx) == m \cup tx

\* BitBoard::transmit
transmit(m, tx) == IF intersects(m, tx) THEN m \cup tx ELSE m

\* BitBoard::first: the lowest square, NoSquare for the empty mask
first(m) == IF m # {} THEN Min(m) ELSE NoSquare

\* BitBoard::from(Square)
from_sq(sq) == {sq}

\* the mask of one rank: BitBoard::with_rank_u8 / BitBoard::from(Rank)
with_rank(rank) == {sq \in Squares : rank_u8(sq) = rank}

(***************************************************************************)
(* Ray casting (ray.rs).                                                   *)
(***************************************************************************)
\* ascending rays: keep the bits up to and including the lowest blocker
truncate_lt(ray, occ) ==
    LET o == ray \cap occ
    IN IF o = {} THEN ray ELSE {sq \in ray : sq <= Min(o)}

\* truncate_gt cutting at the lowest blocker instead of the highest
truncate_gt_lowest(ray, occ) ==
    LET o == ray \cap occ
    IN IF o = {} THEN ray ELSE {sq \in ray : sq >= Min(o)}

\* descending rays: keep the bits down to and including the highest blocker
truncate_gt(ray, occ) ==
    LET o == ray \cap occ
    IN IF o = {} THEN ray ELSE {sq \in ray : sq >= Max(o)}

Ascending(r) == r \in {"PosPos", "PosNeg", "PosZero", "ZeroPos"}

\* Ray::cast: pos_pos, neg_neg, ... by direction
cast(r, src, occ) ==
    IF Ascending(r) THEN truncate_lt(RAY_EXCLUSIVE[r][src], occ)
    ELSE truncate_gt(RAY_EXCLUSIVE[r][src], occ)

\* Ray::cast_if_hit: <<FALSE, {}>> stands for None
cast_if_hit(r, src, occ) ==
    IF RAY_EXCLUSIVE[r][src] \cap occ = {} THEN <<FALSE, {}>>
    ELSE <<TRUE, cast(r, src, occ)>>

\* magic::get_rook_moves / get_bishop_moves: the four rays, each cut at its first blocker
rook_moves(sq, occ) ==
    UNION {cast(r, sq, occ) : r \in {"PosZero", "NegZero", "ZeroPos", "ZeroNeg"}}

bishop_moves(sq, occ) ==
    UNION {cast(r, sq, occ) : r \in {"PosPos", "NegNeg", "PosNeg", "NegPos"}}

\* Square::ortho_ray / diag_ray / ray: the direction that leads from a square to another
ortho_ray(sq, rhs) ==
    LET rs == {r \in {"PosZero", "NegZero", "ZeroPos", "ZeroNeg"} : rhs \in RAY_EXCLUSIVE[r][sq]}
    IN IF rs = {} THEN "None" ELSE CHOOSE r \in rs : TRUE

diag_ray(sq, rhs) ==
    LET rs == {r \in {"PosPos", "NegNeg", "PosNeg", "NegPos"} : rhs \in RAY_EXCLUSIVE[r][sq]}
    IN IF rs = {} THEN "None" ELSE CHOOSE r \in rs : TRUE

any_ray(sq, rhs) ==
    LET rs == {r \in Rays : rhs \in RAY_EXCLUSIVE[r][sq]}
    IN IF rs = {} THEN "None" ELSE CHOOSE r \in rs : TRUE

(***************************************************************************)
(* Pieces (pieces.rs): six kind masks and two side masks.                  *)
(***************************************************************************)
PieceKinds == {"Bishop", "Knight", "Queen", "King", "Rook", "Pawn"}

\* Piece::to_u8
to_u8(pc) ==
    CASE pc = "Bishop" -> 0
      [] pc = "Knight" -> 1
      [] pc = "Queen" -> 2
      [] pc = "Rook" -> 3
      [] pc = "King" -> 4
      [] pc = "Pawn" -> 5

\* Piece::from_u8
from_u8(u) ==
    CASE u = 0 -> "Bishop"
      [] u = 1 -> "Knight"
      [] u = 2 -> "Queen"
      [] u = 3 -> "King"
      [] u = 4 -> "Rook"
      [] u = 5 -> "Pawn"
      [] OTHER -> "None"

\* the field of a kind: Pieces::index
KindField(pc) ==
    CASE pc = "Bishop" -> "bishops"
      [] pc = "Knight" -> "knights"
      [] pc = "Queen" -> "queens"
      [] pc = "King" -> "kings"
      [] pc = "Rook" -> "rooks"
      [] pc = "Pawn" -> "pawns"

TeamField(team) == IF team = "White" THEN "white" ELSE "black"

EmptyPieces ==
    [bishops |-> {}, knights |-> {}, queens |-> {}, kings |-> {},
     rooks |-> {}, pawns |-> {}, white |-> {}, black |-> {}]

on_team(p, team) == p[TeamField(team)]

get(p, pc, team) == p[KindField(pc)] \cap on_team(p, team)

all(p, pcs, team) == UNION {p[KindField(pc)] : pc \in pcs} \cap on_team(p, team)

occupied(p) == p.white \cup p.black

\* the kind masks in the order the code tests them
KindOrder == <<"Bishop", "Knight", "Queen", "King", "Rook", "Pawn">>

\* the first kind, in the code's order, whose mask meets sqs
FirstKind(p, sqs) ==
    LET hit == {i \in 1 .. 6 : intersects(p[KindField(KindOrder[i])], sqs)}
    IN IF hit = {} THEN "None" ELSE KindOrder[Min(hit)]

piece_at(p, at) ==
    IF at \notin occupied(p) THEN "None" ELSE FirstKind(p, {at})

piece_at_or_on_hole(p, at, holes) ==
    IF at \in holes
    THEN IF ~intersects(occupied(p), holes) THEN "None" ELSE FirstKind(p, holes)
    ELSE piece_at(p, at)

\* Pieces::remove: both side masks are cleared, and the first kind mask that meets the squares
remove(p, at, holes) ==
    LET sqs == IF at \in holes THEN holes ELSE {at}
        q == [p EXCEPT !.white = @ \ sqs, !.black = @ \ sqs]
        k == FirstKind(p, sqs)
    IN IF k = "None" THEN q ELSE [q EXCEPT ![KindField(k)] = @ \ sqs]

\* the setting half of Pieces::insert: no clearing of what stands on the square
insert_unchecked(p, at, pc, team) ==
    [p EXCEPT ![TeamField(team)] = @ \cup {at}, ![KindField(pc)] = @ \cup {at}]

\* Pieces::insert: clears the square (all wormholes if it is one) of every mask first
insert(p, at, pc, team, holes) ==
    LET i == IF at \in holes THEN holes \cup {at} ELSE {at}
        q == IF intersects(occupied(p), i)
             THEN [f \in DOMAIN p |-> p[f] \ i]
             ELSE p
    IN insert_unchecked(q, at, pc, team)

\* Pieces::setup_from_file
setup_from_file(p, pc, file) ==
    [p EXCEPT !.white = @ \cup {Square_new(0, file)},
              !.black = @ \cup {Square_new(7, file)},
              ![KindField(pc)] = @ \cup {Square_new(0, file), Square_new(7, file)}]

\* Pieces::just_pawns
just_pawns ==
    [EmptyPieces EXCEPT !.pawns = with_rank(1) \cup with_rank(6),
                        !.white = with_rank(1), !.black = with_rank(6)]

\* Pieces::default: the standard start position
DefaultPieces ==
    [knights |-> {1, 6, 57, 62}, bishops |-> {2, 5, 58, 61}, queens |-> {3, 59},
     kings |-> {4, 60}, pawns |-> with_rank(1) \cup with_rank(6), rooks |-> {0, 7, 56, 63},
     white |-> with_rank(0) \cup with_rank(1), black |-> with_rank(6) \cup with_rank(7)]

(***************************************************************************)
(* Castle rights (castle.rs).                                              *)
(***************************************************************************)
Castles == {"Long", "Short"}

\* the bit of a side and team in CastleRights::rights
RightBit(side, team) ==
    CASE side = "Short" /\ team = "White" -> 1
      [] side = "Long" /\ team = "White" -> 2
      [] side = "Short" /\ team = "Black" -> 4
      [] side = "Long" /\ team = "Black" -> 8

\* CastleRights::has
has_right(c, side, team) == (c.rights \div RightBit(side, team)) % 2 = 1

\* CastleRights::lose
lose(c, side, team) ==
    IF has_right(c, side, team) THEN [c EXCEPT !.rights = @ - RightBit(side, team)] ELSE c

rook_start(c, side, team) ==
    IF side = "Short" THEN Square_new(back_rank(team), c.settings.short_file)
    ELSE Square_new(back_rank(team), c.settings.long_file)

rook_target(c, side, team) ==
    IF side = "Short" THEN Square_new(back_rank(team), 5) ELSE Square_new(back_rank(team), 3)

king_start(c, team) == Square_new(back_rank(team), c.settings.king_file)

king_target(c, side, team) ==
    IF side = "Short" THEN Square_new(back_rank(team), 6) ELSE Square_new(back_rank(team), 2)

required_unchecked_squares(c, king, side, team) ==
    LET tar == king_target(c, side, team)
    IN BETWEEN_EXCLUSIVE[tar][king] \cup {king, tar}

required_unoccupied_squares(c, king, side, team) ==
    LET rook_src == rook_start(c, side, team)
        rook_tar == rook_target(c, side, team)
        king_tar == king_target(c, side, team)
    IN (BETWEEN_EXCLUSIVE[rook_src][rook_tar] \cup BETWEEN_EXCLUSIVE[king][king_tar])
           \ {rook_src, king}

can_castle(side, team, rights, defended, occ, king) ==
    /\ has_right(rights, side, team)
    /\ ~intersects(defended, required_unchecked_squares(rights, king, side, team))
    /\ ~intersects(occ, required_unoccupied_squares(rights, king, side, team))

\* CastleSettings::default / CastleRights::default
DefaultCastle == [rights |-> 15, settings |-> [king_file |-> 4, short_file |-> 7, long_file |-> 0]]

(***************************************************************************)
(* Defense (defense.rs): the squares the side not to move attacks.         *)
(***************************************************************************)
\* the inner compute of pawn_defense: the two diagonal shifts of a pawn mask
pawn_shift(team, p) ==
    LET pr == {sq \in p : file_u8(sq) # 7}
        pl == {sq \in p : file_u8(sq) # 0}
    IN IF team = "White"
       THEN ({sq + 7 : sq \in pl} \cup {sq + 9 : sq \in pr}) \cap Squares
       ELSE ({sq - 9 : sq \in pl} \cup {sq - 7 : sq \in pr}) \cap Squares

pawn_defense(team, pieces, holes) ==
    IF intersects(pieces, holes)
    THEN pawn_shift(team, pieces \ holes) \cup (pawn_shift(team, pieces \cap holes) \ holes)
    ELSE pawn_shift(team, pieces)

\* the inner compute of knight_defense / king_defense: the union of a table over a mask
table_union(table, pcs) == UNION {table[sq] : sq \in pcs}

knight_defense(pieces, holes) ==
    IF intersects(pieces, holes)
    THEN table_union(KNIGHT_MOVES, pieces \ holes) \cup (table_union(KNIGHT_MOVES, holes) \ holes)
    ELSE table_union(KNIGHT_MOVES, pieces)

king_defense(pieces, holes) ==
    IF intersects(pieces, holes)
    THEN table_union(KING_MOVES, pieces \ holes) \cup (table_union(KING_MOVES, holes) \ holes)
    ELSE table_union(KING_MOVES, pieces)

\* defense_ray stopping short of the first occupied square
defense_ray_short(src, r, occ, holes) == cast(r, src, occ \ {src}) \ occ

\* defense.rs ray: one slider, one direction
defense_ray(src, r, occ, holes) ==
    IF src \in holes
    THEN UNION {cast(r, out_sq, occ \ {out_sq}) : out_sq \in holes} \ holes
    ELSE LET chained(ray) ==
                 IF intersects(holes, ray)
                 THEN (ray \cup UNION {cast(r, out_sq, occ) : out_sq \in holes \ ray}) \ {src}
                 ELSE ray
         IN chained(cast(r, src, occ \ {src}))

rook_defense(pieces, holes, occ) ==
    UNION {defense_ray(src, r, occ, holes) :
             src \in pieces, r \in {"PosZero", "NegZero", "ZeroPos", "ZeroNeg"}}

bishop_defense(pieces, holes, occ) ==
    UNION {defense_ray(src, r, occ, holes) :
             src \in pieces, r \in {"PosPos", "NegNeg", "PosNeg", "NegPos"}}

defense(st) ==
    LET team == Not(st.turn)
        holes == st.wormholes
        king == get(st.pieces, "King", st.turn)
        occ0 == occupied(st.pieces) \ king
        occ == IF intersects(holes, occ0) THEN occ0 \cup holes ELSE occ0
        with_holes(d) == IF intersects(holes, d) THEN d \cup holes ELSE d
    IN with_holes(pawn_defense(team, get(st.pieces, "Pawn", team), holes)
                    \cup king_defense(get(st.pieces, "King", team), holes)
                    \cup knight_defense(get(st.pieces, "Knight", team), holes)
                    \cup bishop_defense(all(st.pieces, {"Queen", "Bishop"}, team), holes, occ)
                    \cup rook_defense(all(st.pieces, {"Queen", "Rook"}, team), holes, occ))

(***************************************************************************)
(* Blockable (blockable.rs): where a piece may go to keep a pin, block a   *)
(* check or capture the checking piece; FULL when nothing constrains it.   *)
(***************************************************************************)
\* one step of direct(): narrow the mask by the attackers found in rel
narrow(b, rel) ==
    CASE Cardinality(rel) = 0 -> b
      [] Cardinality(rel) = 1 -> b \cap rel
      [] OTHER -> {}

\* the out_sq loop of direct(), king on a wormhole, in ascending square order
RECURSIVE direct_loop(_, _, _, _)
direct_loop(b, table, relevant, todo) ==
    IF todo = {} THEN b
    ELSE LET out_sq == Min(todo)
         IN direct_loop(narrow(b, relevant \cap table[out_sq]), table, relevant, todo \ {out_sq})

\* blockable.rs direct: knight, king and pawn attackers
blockable_direct(b, table, relevant, holes, king) ==
    IF king \in holes
    THEN direct_loop(b, table, relevant, holes)
    ELSE LET mvs == table[king]
             b1 == narrow(b, mvs \cap relevant)
         IN IF intersects(mvs, holes) /\ intersects(relevant, holes) THEN b1 \cap holes ELSE b1

\* ray_applies without the pin case: only an open line to an attacker narrows the mask
ray_applies_open(ray, relevant, can_block, piece) ==
    /\ intersects(ray, relevant)
    /\ Cardinality(can_block \cap ray) = 0

\* the test of blockable.rs ray: the cast reaches an attacker with at most the piece in the way
ray_applies(ray, relevant, can_block, piece) ==
    /\ intersects(ray, relevant)
    /\ LET blocking == Cardinality(can_block \cap ray)
       IN blocking = 0 \/ (blocking = 1 /\ piece \in ray)

\* blockable.rs ray: sliding attackers along one direction from the king
blockable_ray(b, occ, relevant0, r, piece, holes, king) ==
    LET can_block == occ \ relevant0
        relevant == IF intersects(holes, relevant0) THEN relevant0 \cup holes ELSE relevant0
        \* the mask m after one cast
        narrowed(m, ray) == IF ray_applies(ray, relevant, can_block, piece) THEN m \cap ray ELSE m
        \* the cast from the king enters a wormhole at the end of to_in_sq and leaves
        \* out_sq as from_out_sq
        exit_applies(ray, to_in_sq, blocking, from_out_sq) ==
            /\ intersects(ray, relevant)
            /\ LET blocking2 == blocking + Cardinality(can_block \cap from_out_sq)
               IN blocking2 = 0 \/ (blocking2 = 1 /\ piece \in (to_in_sq \cup from_out_sq))
        exit_keeps(sq, ray, to_in_sq, blocking, from_out_sq) ==
            exit_applies(ray, to_in_sq, blocking, from_out_sq) => sq \in to_in_sq \cup from_out_sq
        through(b1, ray, to_in_sq, blocking) ==
            IF blocking = 0 \/ (blocking = 1 /\ piece \in to_in_sq)
            THEN {sq \in b1 : \A out_sq \in holes \ to_in_sq :
                     exit_keeps(sq, ray, to_in_sq, blocking, cast(r, out_sq, relevant))}
            ELSE b1
        entered(b1, ray, to_in_sq) ==
            through(b1, ray, to_in_sq, Cardinality(can_block \cap to_in_sq))
        from_king(ray) ==
            IF intersects(holes, ray \ relevant)
            THEN entered(narrowed(b, ray), ray, cast(r, king, holes))
            ELSE narrowed(b, ray)
    IN IF king \in holes
       THEN {sq \in b : \A out_sq \in holes : sq \in narrowed({sq}, cast(r, out_sq, relevant))}
       ELSE from_king(cast(r, king, relevant))

\* the eight blockable.rs ray calls, in the code's order; a call is <<relevant, ray>>
RECURSIVE blockable_rays(_, _, _, _, _, _)
blockable_rays(b, occ, calls, piece, holes, king) ==
    IF calls = <<>> THEN b
    ELSE blockable_rays(blockable_ray(b, occ, Head(calls)[1], Head(calls)[2], piece, holes, king),
                        occ, Tail(calls), piece, holes, king)

blockable(st, pc) ==
    LET king == first(get(st.pieces, "King", st.turn))
        team == Not(st.turn)
        holes == st.wormholes
        occ0 == occupied(st.pieces) \ {king}
        occ == IF intersects(occ0, holes) THEN occ0 \cup holes ELSE occ0
        diagonal == all(st.pieces, {"Queen", "Bishop"}, team)
        orthogonal == all(st.pieces, {"Queen", "Rook"}, team)
        b1 == blockable_direct(FULL, KNIGHT_MOVES, get(st.pieces, "Knight", team), holes, king)
        b2 == blockable_direct(b1, KING_MOVES, get(st.pieces, "King", team), holes, king)
        b3 == blockable_rays(b2, occ,
                             <<<<diagonal, "PosPos">>, <<diagonal, "NegNeg">>,
                               <<diagonal, "PosNeg">>, <<diagonal, "NegPos">>,
                               <<orthogonal, "PosZero">>, <<orthogonal, "NegZero">>,
                               <<orthogonal, "ZeroPos">>, <<orthogonal, "ZeroNeg">>>>,
                             pc, holes, king)
    IN IF king = NoSquare THEN FULL
       ELSE blockable_direct(b3, IF st.turn = "White" THEN WHITE_PAWN_ATTACKS
                                 ELSE BLACK_PAWN_ATTACKS,
                             get(st.pieces, "Pawn", team), holes, king)

(***************************************************************************)
(* Compute (compute.rs): the destinations BoardState::valid_moves offers.  *)
(***************************************************************************)
\* compute.rs direct: table moves of a king, knight or pawn
compute_direct(square, table, holes, team_occ) ==
    IF square \in holes
    THEN table_union(table, holes) \ (team_occ \cup holes)
    ELSE LET mvs == table[square] \ team_occ
         IN IF intersects(holes, mvs) THEN mvs \cup holes ELSE mvs

\* compute.rs ray: one direction of a slider
compute_ray(occ, r, piece, holes, team_occ) ==
    IF piece \in holes
    THEN UNION {cast(r, out_sq, occ) : out_sq \in holes} \ (team_occ \cup holes)
    ELSE LET chained(ray) ==
                 IF intersects(ray, holes) /\ ~intersects(occ, holes)
                 THEN ray \cup UNION {cast(r, out_sq, occ) : out_sq \in holes \ ray}
                 ELSE ray
         IN chained(cast(r, piece, occ)) \ (team_occ \cup {piece})

\* the pushes of a pawn standing on a wormhole: one or two steps from every exit
hole_pushes(holes, dir, occ, double) ==
    UNION {LET one == Square_next(out_sq, dir, 0)
               two == IF one = NoSquare THEN NoSquare ELSE Square_next(one, dir, 0)
           IN IF one # NoSquare /\ one \notin occ
              THEN {one} \cup (IF double /\ two # NoSquare /\ two \notin occ THEN {two} ELSE {})
              ELSE {}
           : out_sq \in holes}

\* pawn with the double push offered from every rank
pawn_any_rank(team, sq, holes, team_occ, occ, en_passant) ==
    LET table == IF team = "White" THEN WHITE_PAWN_ATTACKS ELSE BLACK_PAWN_ATTACKS
        captures == compute_direct(sq, table, holes, team_occ)
                      \cap (IF en_passant # NoSquare THEN occ \cup {en_passant} ELSE occ)
        dir == pawn_dir(team)
        one == Square_next(sq, dir, 0)
        two == IF one = NoSquare THEN NoSquare ELSE Square_next(one, dir, 0)
        moves ==
            IF one # NoSquare /\ one \notin occ
            THEN {one} \cup (IF two # NoSquare /\ two \notin occ THEN {two} ELSE {})
            ELSE {}
    IN moves \cup captures

\* compute.rs pawn
pawn(team, sq, holes, team_occ, occ, en_passant) ==
    LET table == IF team = "White" THEN WHITE_PAWN_ATTACKS ELSE BLACK_PAWN_ATTACKS
        captures == compute_direct(sq, table, holes, team_occ)
                      \cap (IF en_passant # NoSquare THEN occ \cup {en_passant} ELSE occ)
        dir == pawn_dir(team)
        one == Square_next(sq, dir, 0)
        two == IF one = NoSquare THEN NoSquare ELSE Square_next(one, dir, 0)
        moves ==
            IF sq \in holes
            THEN hole_pushes(holes, dir, occ, intersects(holes, with_rank(pawn_rank(team)))) \ holes
            ELSE IF one # NoSquare /\ one \notin occ
                 THEN {one} \cup
                      (IF rank_u8(sq) = pawn_rank(team)
                       THEN (IF two # NoSquare /\ two \notin occ THEN {two} ELSE {}) \cup
                            (IF one \in holes THEN hole_pushes(holes, dir, occ, FALSE) ELSE {})
                       ELSE {})
                 ELSE {}
    IN moves \cup captures

\* the castling squares the king branch of compute adds
king_castles(st, team, defended, occ, sq) ==
    UNION {IF can_castle(side, team, st.castle, defended, occ, sq)
           THEN {rook_start(st.castle, side, team), king_target(st.castle, side, team)}
           ELSE {}
           : side \in Castles}

\* the king square the rook branch of compute adds
rook_castles(st, team, occ, sq) ==
    LET king == first(get(st.pieces, "King", team))
    IN UNION {IF sq = rook_start(st.castle, side, team) /\ king # NoSquare
                 /\ can_castle(side, team, st.castle, defense(st), occ, king)
              THEN {king} ELSE {}
              : side \in Castles}

compute(st, sq) ==
    LET team == st.turn
        holes == st.wormholes
        occ0 == occupied(st.pieces)
        occ == IF intersects(holes, occ0) THEN occ0 \cup holes ELSE occ0
        team0 == on_team(st.pieces, team)
        team_occ == IF intersects(holes, team0) THEN team0 \cup holes ELSE team0
        ext == IF sq \in holes THEN holes ELSE {}
        \* the pin / check filter is switched off in this function
        blockable_mask == FULL
        rays(rs) == UNION {compute_ray(occ, r, sq, holes, team_occ) : r \in rs}
        king_moves(defended) ==
            (compute_direct(sq, KING_MOVES, holes, team_occ) \ defended)
              \cup king_castles(st, team, defended, occ, sq)
    IN IF sq \in get(st.pieces, "King", team) \cup ext
       THEN king_moves(defense(st))
       ELSE IF sq \in get(st.pieces, "Pawn", team) \cup ext
       THEN blockable_mask \cap pawn(team, sq, holes, team_occ, occ, st.en_passant)
       ELSE IF sq \in get(st.pieces, "Rook", team) \cup ext
       THEN blockable_mask \cap (rook_castles(st, team, occ, sq)
                                   \cup rays({"PosZero", "NegZero", "ZeroPos", "ZeroNeg"}))
       ELSE IF sq \in get(st.pieces, "Knight", team) \cup ext
       THEN compute_direct(sq, KNIGHT_MOVES, holes, team_occ) \cap blockable_mask
       ELSE IF sq \in get(st.pieces, "Queen", team) \cup ext
       THEN blockable_mask \cap rays(Rays)
       ELSE IF sq \in get(st.pieces, "Bishop", team) \cup ext
       THEN blockable_mask \cap rays({"PosPos", "NegNeg", "PosNeg", "NegPos"})
       ELSE {}

(***************************************************************************)
(* Trace (trace.rs): legality and effects of one (src, dst) pair.          *)
(***************************************************************************)
\* MoveTrace::default; `some` is FALSE for the None result of trace
DefaultTrace ==
    [some |-> TRUE, route |-> <<>>, captures |-> "None",
     is_capture_en_passant |-> NoSquare, allows_en_passant |-> NoSquare,
     requires_promotion |-> FALSE, is_king_move |-> FALSE, is_castle |-> "None",
     loses_castle |-> "None", takes_castle |-> "None"]

NoTrace == [DefaultTrace EXCEPT !.some = FALSE]

\* (out_sq != src).then(|| (src, out_sq))
route_of(src, out_sq) == IF out_sq # src THEN <<src, out_sq>> ELSE <<>>

\* the first (in_sq, out_sq) pair of two nested ascending loops
FirstPair(pairs) ==
    LET in_sq == Min({p[1] : p \in pairs})
    IN <<in_sq, Min({p[2] : p \in {q \in pairs : q[1] = in_sq}})>>

\* CastleRights::move_loses_castle: the side whose rook start square the mover leaves
move_loses_castle(c, srcs, team) ==
    IF rook_start(c, "Long", team) \in srcs THEN "Long"
    ELSE IF rook_start(c, "Short", team) \in srcs THEN "Short"
    ELSE "None"

\* CastleRights::capture_takes_castle: the side whose rook start square is captured on
capture_takes_castle(c, dsts, team) ==
    IF rook_start(c, "Long", team) \in dsts THEN "Long"
    ELSE IF rook_start(c, "Short", team) \in dsts THEN "Short"
    ELSE "None"

\* the king branch of trace
trace_king(st, src, dst, dsts, friendly, occ) ==
    LET turn == st.turn
        holes == st.wormholes
        \* sides: the castles this move makes; outs: the exits of a king on a wormhole
        decide(defended, sides, outs) ==
            IF sides # {}
            THEN [DefaultTrace EXCEPT !.is_king_move = TRUE,
                                      !.is_castle = IF "Long" \in sides THEN "Long" ELSE "Short"]
            ELSE IF src \in holes
            THEN IF outs # {}
                 THEN [DefaultTrace EXCEPT !.route = route_of(src, Min(outs)),
                                           !.is_king_move = TRUE]
                 ELSE NoTrace
            ELSE IF intersects(KING_MOVES[src] \ (friendly \cup defended), dsts)
                 THEN [DefaultTrace EXCEPT !.is_king_move = TRUE]
                 ELSE NoTrace
        with_defense(defended) ==
            decide(defended,
                   {side \in Castles :
                      /\ rank_u8(dst) = back_rank(turn) /\ rank_u8(src) = back_rank(turn)
                      /\ src = king_start(st.castle, turn)
                      /\ can_castle(side, turn, st.castle, defended, occ, src)
                      /\ (dst = rook_target(st.castle, side, turn) \/
                          dst = king_target(st.castle, side, turn))},
                   {out_sq \in holes :
                      dst \in KING_MOVES[out_sq] \ (friendly \cup defended \cup holes)})
    IN with_defense(defense(st))

\* the knight branch of trace; b is blockable(src, state)
trace_knight(st, src, dsts, friendly, b, base) ==
    LET holes == st.wormholes
        outs == {out_sq \in holes : intersects((KNIGHT_MOVES[out_sq] \ friendly) \cap b, dsts)}
    IN IF src \in holes
       THEN IF outs # {} THEN [base EXCEPT !.route = route_of(src, Min(outs))] ELSE NoTrace
       ELSE IF intersects((KNIGHT_MOVES[src] \ friendly) \cap b, dsts) THEN base ELSE NoTrace

\* sq.bishop_moves(occupied), sq.rook_moves(occupied), or for the queen their union
slider_moves(kind, sq, occ) ==
    CASE kind = "Bishop" -> bishop_moves(sq, occ)
      [] kind = "Rook" -> rook_moves(sq, occ)
      [] OTHER -> rook_moves(sq, occ) \cup bishop_moves(sq, occ)

\* src.diag_ray(in_sq), src.ortho_ray(in_sq), or for the queen src.ray(in_sq)
slider_ray(kind, src, in_sq) ==
    CASE kind = "Bishop" -> diag_ray(src, in_sq)
      [] kind = "Rook" -> ortho_ray(src, in_sq)
      [] OTHER -> any_ray(src, in_sq)

\* the shape shared by the bishop, rook and queen branches of trace: from a wormhole,
\* directly, or through a wormhole the move reaches while the wormholes are empty
trace_slider(st, src, dst, dsts, occ, kind, allow, chain_dsts, base) ==
    LET holes == st.wormholes
        holes_are_occ == intersects(occ, holes)
        \* the move enters the wormhole in_sq along ray and reaches dst from out_sq
        chains(ray, out_sq) ==
            ray # "None" /\ intersects(cast(ray, out_sq, occ) \cap allow, chain_dsts)
        from_hole(outs) ==
            IF outs # {} THEN [base EXCEPT !.route = route_of(src, Min(outs))] ELSE NoTrace
        through(pairs) ==
            IF ~holes_are_occ /\ pairs # {} THEN [base EXCEPT !.route = FirstPair(pairs)]
            ELSE NoTrace
        from_src(moves) ==
            IF intersects(moves \cap allow, dsts) THEN base
            ELSE through({p \in (moves \cap holes) \X holes :
                            chains(slider_ray(kind, src, p[1]), p[2])})
    IN IF src \in holes
       THEN from_hole({out_sq \in holes : dst \in slider_moves(kind, out_sq, occ) \cap allow})
       ELSE from_src(slider_moves(kind, src, occ))

\* the rook branch of trace: castling by moving the rook onto the king, or a rook move;
\* b is blockable(src, state)
trace_rook(st, src, dst, dsts, friendly, occ, b, base) ==
    LET turn == st.turn
        king_sq == king_start(st.castle, turn)
        castled(sides) ==
            IF b = FULL /\ sides # {}
            THEN [DefaultTrace EXCEPT !.is_castle = IF "Long" \in sides THEN "Long" ELSE "Short",
                                      !.is_king_move = TRUE]
            ELSE NoTrace
    IN IF king_sq \in dsts /\ king_sq \in get(st.pieces, "King", turn)
       THEN castled({side \in Castles :
                       /\ src = rook_start(st.castle, side, turn)
                       /\ can_castle(side, turn, st.castle, defense(st), occ, king_sq)})
       ELSE trace_slider(st, src, dst, dsts, occ, "Rook", b \ friendly, {dst}, base)

\* one wormhole exit of the pawn branch of trace, the pawn standing on a wormhole
trace_pawn_exit(st, src, dst, out_sq, takeable, b, occ, is_pawn_rank, base) ==
    LET turn == st.turn
        table == IF turn = "White" THEN WHITE_PAWN_ATTACKS ELSE BLACK_PAWN_ATTACKS
        routed == [base EXCEPT !.route = route_of(src, out_sq)]
        one == Square_next(out_sq, pawn_dir(turn), 0)
        two == Square_next(out_sq, pawn_dir(turn), 0)
    IN IF dst \in table[out_sq] \cap takeable
       THEN IF st.en_passant # NoSquare /\ dst = st.en_passant
            THEN [routed EXCEPT !.is_capture_en_passant = st.en_passant]
            ELSE routed
       ELSE IF one # NoSquare /\ one \notin occ
       THEN IF one \in b /\ one = dst
            THEN [routed EXCEPT !.captures = "None", !.takes_castle = "None"]
            ELSE IF two # NoSquare /\ is_pawn_rank /\ two \notin occ /\ two \in b /\ two = dst
            THEN [routed EXCEPT !.captures = "None", !.takes_castle = "None",
                                !.allows_en_passant = one]
            ELSE NoTrace
       ELSE NoTrace

\* the pawn branch of trace; base carries captures, takes_castle and requires_promotion,
\* b is blockable(src, state)
trace_pawn(st, src, dst, dsts, occ, b, base) ==
    LET turn == st.turn
        holes == st.wormholes
        dir == pawn_dir(turn)
        table == IF turn = "White" THEN WHITE_PAWN_ATTACKS ELSE BLACK_PAWN_ATTACKS
        ep_tx == IF st.en_passant # NoSquare THEN transmit({st.en_passant}, holes) ELSE {}
        takeable == transmit(on_team(st.pieces, Not(turn)) \cup ep_tx, holes) \cap b
        hole_rank == intersects(with_rank(pawn_rank(turn)), holes)
        \* the first exit of the wormholes that yields a move
        from_exit(exits) ==
            IF exits # {}
            THEN trace_pawn_exit(st, src, dst, Min(exits), takeable, b, occ, hole_rank, base)
            ELSE NoTrace
        one == Square_next(src, dir, 0)
        two == IF one = NoSquare THEN NoSquare ELSE Square_next(one, dir, 0)
        outs == {out_sq \in holes :
                    LET t == Square_next(out_sq, dir, 0)
                    IN t # NoSquare /\ t \notin occ /\ t \in b}
        push == [base EXCEPT !.captures = "None", !.takes_castle = "None"]
    IN IF src \in holes
       THEN from_exit({out_sq \in holes :
                         trace_pawn_exit(st, src, dst, out_sq, takeable, b, occ,
                                         hole_rank, base).some})
       ELSE IF intersects(table[src] \cap takeable, dsts)
       THEN IF st.en_passant # NoSquare /\ dst = st.en_passant
            THEN [base EXCEPT !.is_capture_en_passant = st.en_passant]
            ELSE base
       ELSE IF one # NoSquare /\ one \notin occ
       THEN IF one \in b /\ one = dst
            THEN [base EXCEPT !.captures = "None"]
            ELSE IF rank_u8(src) = pawn_rank(turn)
            THEN IF one \in holes
                 THEN IF outs # {}
                      THEN [push EXCEPT !.route = route_of(one, Min(outs)),
                                        !.allows_en_passant = one]
                      ELSE NoTrace
                 ELSE IF two # NoSquare /\ two \notin occ /\ two \in b
                      THEN [push EXCEPT !.allows_en_passant = one]
                      ELSE NoTrace
            ELSE NoTrace
       ELSE NoTrace

\* hit is the trace of a move that captures what stands on dst; b is blockable(src, state),
\* which every branch but the king's computes
trace(st, src, dst) ==
    LET turn == st.turn
        holes == st.wormholes
        friendly == on_team(st.pieces, turn)
        dsts == transmit({dst}, holes)
        srcs == transmit({src}, holes)
        occ == transmit(occupied(st.pieces), holes)
        branch(pc, hit, b) ==
            CASE pc = "King" -> trace_king(st, src, dst, dsts, friendly, occ)
              [] pc = "Knight" -> trace_knight(st, src, dsts, friendly, b, hit)
              [] pc = "Bishop" ->
                   trace_slider(st, src, dst, dsts, occ, "Bishop", b \ friendly, dsts, hit)
              [] pc = "Rook" ->
                   trace_rook(st, src, dst, dsts, friendly, occ, b,
                              [hit EXCEPT !.loses_castle =
                                             move_loses_castle(st.castle, srcs, turn)])
              [] pc = "Queen" ->
                   trace_slider(st, src, dst, dsts, occ, "Queen", (FULL \ friendly) \cup b,
                                {dst}, hit)
              [] pc = "Pawn" ->
                   trace_pawn(st, src, dst, dsts, occ, b,
                              [hit EXCEPT !.requires_promotion =
                                            intersects(dsts, with_rank(back_rank(Not(turn))))])
              [] OTHER -> NoTrace
    IN IF src \notin friendly THEN NoTrace
       ELSE branch(piece_at_or_on_hole(st.pieces, src, holes),
                   [DefaultTrace EXCEPT
                      !.captures = piece_at_or_on_hole(st.pieces, dst, holes),
                      !.takes_castle = capture_takes_castle(st.castle, dsts, Not(turn))],
                   blockable(st, src))

(***************************************************************************)
(* BoardDelta (game.rs): one move packed into a u64, held here as the set  *)
(* of its set bit positions, bit 0 the least significant.                  *)
(***************************************************************************)
\* DeltaFlags: each flag is named by the position of its bit
IS_EN_PASSANT == 0

IS_DOUBLE_PUSH == 1

HAS_PREV_EP_SQ == 2

TIME_SECONDS == 3

RESET_HALFMOVES == 4

IS_CAPTURE == 5

IS_PROMOTE == 6

IS_CASTLE == 7

HOLE_PUSHED == 8

HOLE_POPPED == 9

HOLE_WILL_POP == 10

FLAG_LEN == 11

FLAG_OFFS == 0

SRC_SQ_LEN == 6

SRC_SQ_OFFS == FLAG_LEN

DST_SQ_LEN == 6

DST_SQ_OFFS == SRC_SQ_OFFS + SRC_SQ_LEN

TIME_LEN == 13

TIME_OFFS == DST_SQ_OFFS + DST_SQ_LEN

CAPTURE_LEN == 3

CAPTURE_OFFS == TIME_OFFS + TIME_LEN

PROMOTE_LEN == 2

PROMOTE_OFFS == CAPTURE_OFFS + CAPTURE_LEN

PREV_EP_SQ_LEN == 6

PREV_EP_SQ_OFFS == PROMOTE_OFFS + PROMOTE_LEN

CASTLE_LEN == 4

CASTLE_OFFS == PREV_EP_SQ_OFFS + PREV_EP_SQ_LEN

HOLE_SQ_LEN == 6

HOLE_SQ_OFFS == CASTLE_OFFS + CASTLE_LEN

HALFMOVES_LEN == 6

HALFMOVES_OFFS == HOLE_SQ_OFFS + HOLE_SQ_LEN

\* the bit positions of a u64
U64Bits == 0 .. 63

\* the set bits of a small unsigned number (the operands here fit 16 bits)
BitsOf(n) == {i \in 0 .. 15 : (n \div (2 ^ i)) % 2 = 1}

\* the number whose set bits are `bits`
RECURSIVE ValueOf(_)
ValueOf(bits) ==
    IF bits = {} THEN 0
    ELSE LET i == Max(bits) IN (2 ^ i) + ValueOf(bits \ {i})

\* BoardDelta::default
DefaultDelta == {}

\* (val >> offs) & ((1 << len) - 1)
extract(val, len, offs) ==
    ValueOf({i \in 0 .. (len - 1) : (offs + i) \in val})

\* (val & !(((1 << len) - 1) << offs)) | item << offs : the item is not masked to len bits
deposit(val, len, offs, item) ==
    (val \ (offs .. (offs + len - 1))) \cup ({offs + i : i \in BitsOf(item)} \cap U64Bits)

\* the flags of a delta, as the set of flag bits it holds
get_flags(d) == BitsOf(extract(d, FLAG_LEN, FLAG_OFFS))

set_flags(d, flags) == deposit(d, FLAG_LEN, FLAG_OFFS, ValueOf(flags))

add_flags(d, flags) == deposit(d, FLAG_LEN, FLAG_OFFS, ValueOf(flags \cup get_flags(d)))

get_src_sq(d) == extract(d, SRC_SQ_LEN, SRC_SQ_OFFS)

set_src_sq(d, src) == deposit(d, SRC_SQ_LEN, SRC_SQ_OFFS, src)

get_dst_sq(d) == extract(d, DST_SQ_LEN, DST_SQ_OFFS)

set_dst_sq(d, dst) == deposit(d, DST_SQ_LEN, DST_SQ_OFFS, dst)

get_capture_pc(d) ==
    IF IS_CAPTURE \in get_flags(d)
    THEN from_u8(extract(d, CAPTURE_LEN, CAPTURE_OFFS))
    ELSE "None"

set_capture_pc(d, pc) ==
    IF pc # "None"
    THEN deposit(set_flags(d, get_flags(d) \cup {IS_CAPTURE}),
                 CAPTURE_LEN, CAPTURE_OFFS, to_u8(pc))
    ELSE set_flags(d, get_flags(d) \ {IS_CAPTURE})

get_promote_pc(d) ==
    IF IS_PROMOTE \in get_flags(d)
    THEN from_u8(extract(d, PROMOTE_LEN, PROMOTE_OFFS))
    ELSE "None"

set_promote_pc(d, pc) ==
    IF pc # "None"
    THEN deposit(set_flags(d, get_flags(d) \cup {IS_PROMOTE}),
                 PROMOTE_LEN, PROMOTE_OFFS, to_u8(pc))
    ELSE set_flags(d, get_flags(d) \ {IS_PROMOTE})

\* the presence of the previous en-passant square is read from IS_DOUBLE_PUSH
get_prev_ep_sq(d) ==
    IF IS_DOUBLE_PUSH \in get_flags(d)
    THEN extract(d, PREV_EP_SQ_LEN, PREV_EP_SQ_OFFS)
    ELSE NoSquare

set_prev_ep_sq(d, sq) ==
    IF sq # NoSquare
    THEN deposit(set_flags(d, get_flags(d) \cup {IS_DOUBLE_PUSH}),
                 PREV_EP_SQ_LEN, PREV_EP_SQ_OFFS, sq)
    ELSE set_flags(d, get_flags(d) \ {IS_DOUBLE_PUSH})

get_castle_rights(d) == extract(d, CASTLE_LEN, CASTLE_OFFS)

set_castle_rights(d, rights) == deposit(d, CASTLE_LEN, CASTLE_OFFS, rights)

get_hole_square(d) ==
    IF HOLE_PUSHED \in get_flags(d) \/ HOLE_POPPED \in get_flags(d)
    THEN extract(d, HOLE_SQ_LEN, HOLE_SQ_OFFS)
    ELSE NoSquare

set_pushed_hole(d, sq) ==
    IF sq # NoSquare
    THEN deposit(set_flags(d, get_flags(d) \cup {HOLE_PUSHED}), HOLE_SQ_LEN, HOLE_SQ_OFFS, sq)
    ELSE set_flags(d, get_flags(d) \ {HOLE_PUSHED, HOLE_POPPED})

set_popped_hole(d, sq) ==
    IF sq # NoSquare
    THEN deposit(set_flags(d, get_flags(d) \cup {HOLE_POPPED}), HOLE_SQ_LEN, HOLE_SQ_OFFS, sq)
    ELSE set_flags(d, get_flags(d) \ {HOLE_PUSHED, HOLE_POPPED})

get_prev_halfmoves(d) == extract(d, HALFMOVES_LEN, HALFMOVES_OFFS)

set_prev_halfmoves(d, halfmoves) == deposit(d, HALFMOVES_LEN, HALFMOVES_OFFS, halfmoves)

\* Long when the source index is above the destination index
castle_side(d) ==
    IF IS_CASTLE \in get_flags(d)
    THEN IF get_src_sq(d) > get_dst_sq(d) THEN "Long" ELSE "Short"
    ELSE "None"

(***************************************************************************)
(* State transitions (state.rs): BoardState::next and BoardState::prev.    *)
(***************************************************************************)
\* BoardState::default
DefaultState ==
    [en_passant |-> NoSquare, next_hole |-> NoSquare, hole_in_1 |-> FALSE, wormholes |-> {},
     fullmoves |-> 1, halfmoves |-> 0, pieces |-> DefaultPieces, castle |-> DefaultCastle,
     turn |-> "White"]

\* the castling arm of BoardState::next
next_castle(st, side) ==
    LET turn == st.turn
        p1 == remove(st.pieces, king_start(st.castle, turn), {})
        p2 == remove(p1, rook_start(st.castle, side, turn), {})
        p3 == insert_unchecked(p2, king_target(st.castle, side, turn), "King", turn)
        p4 == insert_unchecked(p3, rook_target(st.castle, side, turn), "Rook", turn)
    IN [st EXCEPT !.pieces = p4, !.en_passant = NoSquare, !.halfmoves = 0]

\* the ordinary arm of BoardState::next
next_move(st, d) ==
    LET flags == get_flags(d)
        src == get_src_sq(d)
        dst == get_dst_sq(d)
        turn == st.turn
        moved_piece == piece_at_or_on_hole(st.pieces, src, st.wormholes)
        \* p1: the board without the moved piece
        captured(p1) ==
            IF IS_CAPTURE \in flags
            THEN IF st.en_passant # NoSquare /\ IS_EN_PASSANT \in flags
                 THEN remove(p1, st.en_passant, st.wormholes)
                 ELSE remove(p1, dst, st.wormholes)
            ELSE p1
        ep == IF IS_DOUBLE_PUSH \in flags
              THEN IF dst \in st.wormholes
                   THEN Square_add(src, pawn_dir(turn), 0)
                   ELSE Square_add(dst, 0 - pawn_dir(turn), 0)
              ELSE st.en_passant
        promotion == get_promote_pc(d)
        \* p2: the board without the moved and the captured piece
        placed(p2) ==
            IF promotion # "None" THEN insert_unchecked(p2, dst, promotion, turn)
            ELSE IF moved_piece # "None" THEN insert_unchecked(p2, dst, moved_piece, turn)
            ELSE p2
    IN [st EXCEPT !.pieces = placed(captured(remove(st.pieces, src, st.wormholes))),
                  !.en_passant = ep,
                  !.halfmoves = IF RESET_HALFMOVES \in flags THEN 0 ELSE (@ + 1) % 256]

\* BoardState::next
next(st, d) ==
    LET flags == get_flags(d)
        side == castle_side(d)
        moved == IF side # "None" THEN next_castle(st, side) ELSE next_move(st, d)
        hole == get_hole_square(d)
    IN [moved EXCEPT
          !.fullmoves = IF st.turn = "Black" THEN (@ + 1) % 65536 ELSE @,
          !.castle = [@ EXCEPT !.rights = get_castle_rights(d)],
          !.next_hole = IF hole = NoSquare THEN @
                        ELSE IF HOLE_PUSHED \in flags THEN hole
                        ELSE IF HOLE_POPPED \in flags THEN NoSquare
                        ELSE @,
          !.wormholes = IF hole # NoSquare /\ HOLE_PUSHED \notin flags /\ HOLE_POPPED \in flags
                        THEN @ \cup {hole} ELSE @,
          !.hole_in_1 = IF hole # NoSquare /\ HOLE_PUSHED \notin flags /\
                           HOLE_POPPED \notin flags /\ HOLE_WILL_POP \in flags
                        THEN TRUE ELSE @,
          !.turn = Not(st.turn)]

\* the castling arm of BoardState::prev
prev_castle(pieces, c, side, turn) ==
    LET p1 == remove(pieces, king_target(c, side, turn), {})
        p2 == remove(p1, rook_target(c, side, turn), {})
        p3 == insert_unchecked(p2, king_start(c, turn), "King", turn)
    IN insert_unchecked(p3, rook_start(c, side, turn), "Rook", turn)

\* the ordinary arm of BoardState::prev
prev_move(st, d, turn) ==
    LET flags == get_flags(d)
        src == get_src_sq(d)
        dst == get_dst_sq(d)
        moved_piece == piece_at_or_on_hole(st.pieces, dst, st.wormholes)
        capture_pc == get_capture_pc(d)
        ep_sq == get_prev_ep_sq(d)
        \* p1: the board without the piece that moved
        restored(p1) ==
            IF capture_pc # "None"
            THEN IF IS_EN_PASSANT \in flags
                 THEN IF ep_sq # NoSquare
                      THEN insert_unchecked(p1, ep_sq, capture_pc, st.turn)
                      ELSE p1
                 ELSE insert_unchecked(p1, dst, capture_pc, st.turn)
            ELSE p1
        \* p2: the board with the captured piece back
        returned(p2) ==
            IF get_promote_pc(d) # "None" THEN insert_unchecked(p2, src, "Pawn", turn)
            ELSE IF moved_piece # "None" THEN insert_unchecked(p2, src, moved_piece, turn)
            ELSE p2
    IN returned(restored(remove(st.pieces, dst, st.wormholes)))

\* BoardState::prev
prev(st, d) ==
    LET turn == Not(st.turn)
        flags == get_flags(d)
        hole == get_hole_square(d)
        side == castle_side(d)
        pushed == hole # NoSquare /\ HOLE_PUSHED \in flags
        popped == hole # NoSquare /\ HOLE_PUSHED \notin flags /\ HOLE_POPPED \in flags
    IN [st EXCEPT
          !.next_hole = IF pushed THEN NoSquare ELSE IF popped THEN hole ELSE @,
          !.hole_in_1 = IF popped THEN TRUE ELSE @,
          !.wormholes = IF popped THEN @ \ {hole} ELSE @,
          !.pieces = IF side # "None" THEN prev_castle(st.pieces, st.castle, side, turn)
                     ELSE prev_move(st, d, turn),
          !.en_passant = get_prev_ep_sq(d),
          !.halfmoves = get_prev_halfmoves(d),
          !.turn = turn,
          !.fullmoves = IF turn = "Black" THEN (@ + 65535) % 65536 ELSE @]

(***************************************************************************)
(* ChessGame::play (game.rs): the delta built for a traced move.           *)
(***************************************************************************)
\* the castle rights play records for the resulting position
play_castle(st, t) ==
    LET turn == st.turn
        c0 == lose(lose(st.castle, "Long", turn), "Short", turn)
        c1 == IF t.loses_castle # "None" THEN lose(c0, t.loses_castle, turn) ELSE c0
        c2 == IF t.takes_castle # "None" THEN lose(c1, t.takes_castle, Not(turn)) ELSE c1
    IN IF ~t.is_king_move THEN st.castle
       ELSE IF t.is_castle # "None" THEN lose(c0, t.is_castle, turn)
       ELSE c2

\* the local halfmoves of play: zero when the clock is to restart
play_halfmoves(st, src, t) ==
    IF t.is_king_move
    THEN IF play_castle(st, t).rights # st.castle.rights THEN 0 ELSE (st.halfmoves + 1) % 256
    ELSE IF src \in st.pieces.pawns \/ t.captures # "None" THEN 0 ELSE (st.halfmoves + 1) % 256

\* the delta as play has built it when it reaches its unwritten tail
play_delta(st, src, dst, promote, t) ==
    LET turn == st.turn
        castle == play_castle(st, t)
        d0 == set_dst_sq(set_src_sq(DefaultDelta, src), dst)
        d1 == IF t.is_king_move /\ t.is_castle # "None"
              THEN set_flags(set_dst_sq(set_src_sq(d0, king_start(castle, turn)),
                                        rook_target(castle, t.is_castle, turn)),
                             {IS_CASTLE})
              ELSE d0
        d2 == set_castle_rights(d1, castle.rights)
        d3 == set_capture_pc(d2, t.captures)
        d4 == set_prev_ep_sq(d3, st.en_passant)
        promoted(d5) ==
            IF t.requires_promotion
            THEN add_flags(set_promote_pc(d5, promote), {IS_PROMOTE})
            ELSE d5
    IN promoted(set_prev_halfmoves(d4, st.halfmoves))

\* the unwritten tail of play (todo!()): it either leaves the delta as built, or
\* marks on it what the trace and the local clock say and next reads
play_tail(d, t, halfmoves, flagged) ==
    LET e == IF t.is_capture_en_passant # NoSquare THEN set_capture_pc(d, "Pawn") ELSE d
        fl == (IF t.is_capture_en_passant # NoSquare THEN {IS_EN_PASSANT} ELSE {})
              \cup (IF t.allows_en_passant # NoSquare THEN {IS_DOUBLE_PUSH} ELSE {})
              \cup (IF halfmoves = 0 THEN {RESET_HALFMOVES} ELSE {})
    IN IF flagged THEN add_flags(e, fl) ELSE d

\* promote.is_none_or(|pc| pc == Piece::Pawn)
promotion_missing(t, promote) == t.requires_promotion /\ promote \in {"None", "Pawn"}

(***************************************************************************)
(* The positions play starts from: the start position and sparse legal     *)
(* middle-game and end-game positions holding the cases of the rules.      *)
(***************************************************************************)
\* a board built by inserting <<square, kind, team>> entries in order
RECURSIVE place(_, _)
place(p, entries) ==
    IF entries = <<>> THEN p
    ELSE place(insert(p, entries[1][1], entries[1][2], entries[1][3], {}), Tail(entries))

\* a BoardState::default with the given board, side to move and castle rights
position(entries, turn, rights) ==
    [DefaultState EXCEPT !.pieces = place(EmptyPieces, entries), !.turn = turn,
                         !.castle = [DefaultCastle EXCEPT !.rights = rights],
                         !.fullmoves = 20]

\* kings and rooks on their start squares, every right held
CastleReady(turn) ==
    position(<<<<4, "King", "White">>, <<0, "Rook", "White">>, <<7, "Rook", "White">>,
               <<60, "King", "Black">>, <<56, "Rook", "Black">>, <<63, "Rook", "Black">>>>,
             turn, 15)

\* the queen on e2 is pinned to the king on e1 by the rook on e8
Pinned ==
    position(<<<<4, "King", "White">>, <<12, "Queen", "White">>, <<1, "Knight", "White">>,
               <<60, "Rook", "Black">>, <<63, "King", "Black">>>>,
             "White", 0)

\* the king on g1 is checked by the knight on f3 and by the rook on g8
DoubleCheck ==
    position(<<<<6, "King", "White">>, <<3, "Queen", "White">>, <<12, "Pawn", "White">>,
               <<21, "Knight", "Black">>, <<62, "Rook", "Black">>, <<63, "King", "Black">>>>,
             "White", 0)

\* Black has just played d7-d5 past the white pawn on e5
EnPassantReady ==
    [position(<<<<4, "King", "White">>, <<36, "Pawn", "White">>,
                <<35, "Pawn", "Black">>, <<60, "King", "Black">>>>,
              "White", 0) EXCEPT !.en_passant = 43]

\* a pawn about to promote by a push or by a capture; a knight the king can take
Promotion ==
    position(<<<<4, "King", "White">>, <<48, "Pawn", "White">>,
               <<57, "Rook", "Black">>, <<11, "Knight", "Black">>, <<63, "King", "Black">>>>,
             "White", 0)

\* two live wormholes, c1 and c3, and a queued one on a5: the rook on d3 attacks the
\* king on a1 through them (in at c3, out at c1) and the knight on c2 attacks it directly
Wormholes ==
    [position(<<<<0, "King", "White">>, <<16, "Knight", "White">>, <<41, "Rook", "White">>,
                <<19, "Rook", "Black">>, <<10, "Knight", "Black">>, <<63, "King", "Black">>>>,
              "White", 0) EXCEPT !.wormholes = {2, 18}, !.next_hole = 32]

\* a Chess960 arrangement: king on g1/g8, rooks on h1/h8 and b1/b8
Chess960Ready ==
    [position(<<<<6, "King", "White">>, <<1, "Rook", "White">>, <<7, "Rook", "White">>,
                <<62, "King", "Black">>, <<57, "Rook", "Black">>, <<63, "Rook", "Black">>>>,
              "White", 15)
     EXCEPT !.castle.settings = [king_file |-> 6, short_file |-> 7, long_file |-> 1]]

StartPositions ==
    {DefaultState, CastleReady("White"), CastleReady("Black"), Pinned, DoubleCheck,
     EnPassantReady, Promotion, Wormholes, Chess960Ready}

\* the promotion choices a caller passes to play
Promotions == {"None", "Queen", "Rook", "King"}

(***************************************************************************)
(* The game: play appends a delta to the log and moves the cursor forward; *)
(* stepping the cursor back applies prev with the delta it steps over.     *)
(***************************************************************************)
NoHistory(st) ==
    [op |-> "init", pre |-> st, src |-> NoSquare, dst |-> NoSquare, promote |-> "None",
     trace |-> NoTrace, delta |-> DefaultDelta, mask |-> {}, side |-> "None", able |-> FALSE]

\* ChessGame::cursor_is_last for a game that is not a branch
cursor_is_last == index = Len(deltas)

Init ==
    /\ state \in StartPositions
    /\ index = 0
    /\ deltas = <<>>
    /\ last = NoHistory(state)

\* ChessGame::play accepting a move with the cursor on the last position. The code stops
\* (todo!()) once the delta is built; storing the delta, applying it with next and moving
\* the cursor on follow the documentation of PlaySuccess and of ChessGame::deltas. A move
\* played from an earlier position starts a new game and leaves this log alone.
Play(src, dst, promote, flagged) ==
    /\ Len(deltas) < MaxPly
    /\ cursor_is_last
    /\ \E t \in {trace(state, src, dst)} :
         /\ t.some
         /\ ~promotion_missing(t, promote)
         /\ (promote # "None" => t.requires_promotion)
         /\ \E d \in {play_tail(play_delta(state, src, dst, promote, t), t,
                                play_halfmoves(state, src, t), flagged)} :
              /\ state' = next(state, d)
              /\ index' = index + 1
              /\ deltas' = Append(deltas, d)
              /\ last' = [op |-> "play", pre |-> state, src |-> src, dst |-> dst,
                          promote |-> promote, trace |-> t, delta |-> d, mask |-> {},
                          side |-> "None", able |-> FALSE]

\* stepping the cursor back over one move: BoardState::prev with that move's delta
Prev ==
    /\ index > 0
    /\ state' = prev(state, deltas[index])
    /\ index' = index - 1
    /\ deltas' = deltas
    /\ last' = [op |-> "prev", pre |-> state, src |-> get_src_sq(deltas[index]),
                dst |-> get_dst_sq(deltas[index]), promote |-> "None",
                trace |-> NoTrace, delta |-> deltas[index], mask |-> {},
                side |-> "None", able |-> FALSE]

Next ==
    \/ \E src \in on_team(state.pieces, state.turn), dst \in Squares,
          promote \in Promotions, flagged \in BOOLEAN :
            Play(src, dst, promote, flagged)
    \/ Prev

Spec == Init /\ [][Next]_vars

(***************************************************************************)
(* Properties of the game.                                                 *)
(***************************************************************************)
\* C1: round trip. For every delta d that play produces for a move in a state s,
\* s.next(d).prev(d) equals s in every field.
RoundTrip == last.op = "play" => prev(state, last.delta) = last.pre

\* C2: no self-check. After a played move whose destination compute offered for its
\* source square, the mover's king does not stand on a square the opponent attacks.
NoSelfCheck ==
    (last.op = "play" /\ last.dst \in compute(last.pre, last.src)) =>
        LET mover == last.pre.turn
        IN ~intersects(get(state.pieces, "King", mover),
                       defense([state EXCEPT !.turn = mover]))

\* C3: trace returns a MoveTrace for (src, dst) only if dst is a member of
\* compute(s, src); every move play accepts was accepted by trace.
TraceWithinCompute == last.op = "play" => last.dst \in compute(last.pre, last.src)

\* C8: for a king on its start square and each side S, trace reports is_castle = Some(S)
\* exactly when can_castle holds for S and dst is S's rook-start or king-target square.
CastleDestinationsAgree ==
    LET turn == state.turn
        king == king_start(state.castle, turn)
        occ == transmit(occupied(state.pieces), state.wormholes)
    IN king \in get(state.pieces, "King", turn) =>
         \A side \in Castles, dst \in Squares :
            (trace(state, king, dst).is_castle = side) <=>
               /\ can_castle(side, turn, state.castle, defense(state), occ, king)
               /\ dst \in {rook_start(state.castle, side, turn),
                           king_target(state.castle, side, turn)}

\* C9: for every move that compute offers and trace accepts, trace reports
\* captures = Some(k) exactly when an enemy piece of kind k stands on the destination,
\* or the move is an en-passant capture and k is Pawn.
CapturesReported ==
    (last.op = "play" /\ last.dst \in compute(last.pre, last.src)) =>
        LET pre == last.pre
            enemy == on_team(pre.pieces, Not(pre.turn))
            dsts == transmit({last.dst}, pre.wormholes)
        IN \A k \in PieceKinds :
              (last.trace.captures = k) <=>
                 \/ intersects(dsts, enemy \cap pre.pieces[KindField(k)])
                 \/ (last.trace.is_capture_en_passant # NoSquare /\ k = "Pawn")

\* C10: after next has applied the delta of an en-passant capture, the enemy pawn one
\* rank behind the en-passant target is off the board and the destination holds only
\* the capturing pawn.
EnPassantRemovesPawn ==
    LET pre == last.pre
        mover == pre.turn
        behind == Square_next(pre.en_passant, 0 - pawn_dir(mover), 0)
    IN (/\ last.op = "play"
        /\ last.trace.is_capture_en_passant # NoSquare
        /\ behind \in get(pre.pieces, "Pawn", Not(mover))) =>
           /\ behind \notin occupied(state.pieces)
           /\ last.dst \in get(state.pieces, "Pawn", mover)
           /\ last.dst \notin on_team(state.pieces, Not(mover))
           /\ \A k \in PieceKinds \ {"Pawn"} : last.dst \notin state.pieces[KindField(k)]

(***************************************************************************)
(* The rules of attack without wormholes, stated square by square, against *)
(* which the mask calculators are compared.                                *)
(***************************************************************************)
Diagonals == {"PosPos", "NegNeg", "PosNeg", "NegPos"}

Orthogonals == {"PosZero", "NegZero", "ZeroPos", "ZeroNeg"}

\* the squares a slider on sq sees along r: every square up to and including the
\* first one in occ
RECURSIVE reach(_, _, _)
reach(sq, r, occ) ==
    LET n == Square_next(sq, RayStep(r)[1], RayStep(r)[2])
    IN IF n = NoSquare THEN {}
       ELSE IF n \in occ THEN {n}
       ELSE {n} \cup reach(n, r, occ)

\* the directions a kind slides along
slides(kind) ==
    CASE kind = "Bishop" -> Diagonals
      [] kind = "Rook" -> Orthogonals
      [] kind = "Queen" -> Diagonals \cup Orthogonals
      [] OTHER -> {}

\* the squares the piece of `team` and `kind` on sq attacks over the occupancy occ
attacks_from(sq, kind, team, occ) ==
    CASE kind = "Pawn" ->
           IF team = "White" THEN WHITE_PAWN_ATTACKS[sq] ELSE BLACK_PAWN_ATTACKS[sq]
      [] kind = "Knight" -> KNIGHT_MOVES[sq]
      [] kind = "King" -> KING_MOVES[sq]
      [] OTHER -> UNION {reach(sq, r, occ) : r \in slides(kind)}

\* the squares the pieces of `team` attack over the occupancy occ
attacked_by(p, team, occ) ==
    UNION {UNION {attacks_from(sq, k, team, occ) :
                    k \in {j \in PieceKinds : sq \in p[KindField(j)]}} :
             sq \in on_team(p, team)}

\* the enemy sliders for which P is the only piece between them and the king
pinners(st, P) ==
    LET king == first(get(st.pieces, "King", st.turn))
        team == Not(st.turn)
    IN {a \in on_team(st.pieces, team) :
          /\ \E k \in {"Bishop", "Rook", "Queen"}, r \in Rays :
                a \in st.pieces[KindField(k)] /\ r \in slides(k) /\ a \in RAY_EXCLUSIVE[r][king]
          /\ BETWEEN_EXCLUSIVE[king][a] \cap occupied(st.pieces) = {P}}

\* the side to move's king stands on a square the opponent attacks
in_check(st) ==
    intersects(get(st.pieces, "King", st.turn),
               attacked_by(st.pieces, Not(st.turn), occupied(st.pieces)))

(***************************************************************************)
(* The mask calculators over a family of positions: the king of the side   *)
(* to move in a corner of a small region, up to two enemy pieces and up to *)
(* one friendly knight inside the region, the enemy king far away on h8.   *)
(***************************************************************************)
\* the region is the ranks 0 .. RegionRanks - 1 of the files 0 .. RegionFiles - 1
RegionRanks == 3

RegionFiles == 4

Region == {sq \in Squares : rank_u8(sq) < RegionRanks /\ file_u8(sq) < RegionFiles}

KingCorners == {0, Square_new(RegionRanks - 1, RegionFiles - 1)}

\* a kind on a square of the region; 64 stands for no piece; no pawn on a back rank
Placements(kinds) ==
    {pl \in (Region \X kinds) : pl[2] = "Pawn" => rank_u8(pl[1]) \notin {0, 7}}
        \cup {<<64, "None">>}

piece_entries(pl, team) == IF pl[2] = "None" THEN <<>> ELSE <<<<pl[1], pl[2], team>>>>

MaskPositions ==
    {position(<<<<king, "King", turn>>, <<63, "King", Not(turn)>>>>
                 \o piece_entries(e1, Not(turn)) \o piece_entries(e2, Not(turn))
                 \o piece_entries(f, turn),
              turn, 0) :
        turn \in Teams,
        king \in KingCorners,
        e1 \in Placements({"Queen", "Rook", "Bishop", "Knight", "Pawn"}),
        e2 \in Placements({"Queen", "Rook", "Bishop", "Knight", "Pawn"}),
        f \in Placements({"Knight"})}

\* entries on one square overwrite each other, so every board holds one piece a square
MaskInit ==
    /\ state \in {st \in MaskPositions : Cardinality(st.pieces.kings) = 2}
    /\ index = 0
    /\ deltas = <<>>
    /\ last = NoHistory(state)

\* a query of blockable for the square of a piece of the side to move, not the king
AskBlockable(sq) ==
    /\ last.op = "init"
    /\ last' = [last EXCEPT !.op = "blockable", !.src = sq, !.mask = blockable(state, sq)]
    /\ UNCHANGED <<state, index, deltas>>

\* a query of defense
AskDefense ==
    /\ last.op = "init"
    /\ last' = [last EXCEPT !.op = "defense", !.mask = defense(state)]
    /\ UNCHANGED <<state, index, deltas>>

MaskNext ==
    \/ \E sq \in on_team(state.pieces, state.turn) \ state.pieces.kings : AskBlockable(sq)
    \/ AskDefense

MaskSpec == MaskInit /\ [][MaskNext]_vars

(***************************************************************************)
(* Properties of the mask calculators.                                     *)
(***************************************************************************)
\* C4: pin correctness. With no live wormholes, when the queried piece is the only
\* piece between its king and an enemy slider on a line the slider moves along, and
\* the king is not attacked, blockable is exactly the squares strictly between king
\* and attacker plus the attacker's square, and so not the all-squares mask.
PinCorrect ==
    (last.op = "blockable" /\ state.wormholes = {} /\ ~in_check(state)) =>
        \A a \in pinners(state, last.src) :
            /\ last.mask = BETWEEN_EXCLUSIVE[first(get(state.pieces, "King", state.turn))][a]
                              \cup {a}
            /\ last.mask # FULL

\* a pinned piece has been queried and the mask is the line up to the attacker
PinCorrectWitness ==
    /\ last.op = "blockable"
    /\ state.wormholes = {}
    /\ ~in_check(state)
    /\ \E a \in pinners(state, last.src) :
          /\ Cardinality(BETWEEN_EXCLUSIVE[first(get(state.pieces, "King", state.turn))][a]) = 2
          /\ last.mask = BETWEEN_EXCLUSIVE[first(get(state.pieces, "King", state.turn))][a]
                            \cup {a}

\* the enemy pieces, kings aside, that attack the king of the side to move: each one's
\* share of defense(state), wormholes included
checkers(st) ==
    LET team == Not(st.turn)
        holes == st.wormholes
        king == get(st.pieces, "King", st.turn)
        occ0 == occupied(st.pieces) \ king
        occ == IF intersects(holes, occ0) THEN occ0 \cup holes ELSE occ0
        share(a) ==
            pawn_defense(team, {a} \cap st.pieces.pawns, holes)
              \cup knight_defense({a} \cap st.pieces.knights, holes)
              \cup bishop_defense({a} \cap (st.pieces.bishops \cup st.pieces.queens), holes, occ)
              \cup rook_defense({a} \cap (st.pieces.rooks \cup st.pieces.queens), holes, occ)
    IN {a \in on_team(st.pieces, team) : intersects(king, transmit(share(a), holes))}

\* C5: double check. In every state where two distinct enemy pieces each attack the
\* king of the side to move, blockable is empty for every non-king piece of that side.
DoubleCheckEmpty ==
    Cardinality(checkers(state)) >= 2 =>
        \A q \in on_team(state.pieces, state.turn) \ state.pieces.kings :
            blockable(state, q) = {}

\* C6: with no live wormholes, defense(state) is exactly the set of squares the side
\* not to move attacks, sliders cast over the occupancy without the mover's king and
\* ending at, and including, the first occupied square.
DefenseExact ==
    (last.op = "defense" /\ state.wormholes = {}) =>
        last.mask = attacked_by(state.pieces, Not(state.turn),
                                occupied(state.pieces) \ get(state.pieces, "King", state.turn))

\* defense was queried with the king on a slider's line and the square behind the king
\* is in the mask
DefenseExactWitness ==
    /\ last.op = "defense"
    /\ state.wormholes = {}
    /\ \E a \in on_team(state.pieces, Not(state.turn)), r \in Rays :
          LET king == first(get(state.pieces, "King", state.turn))
              behind == Square_next(king, RayStep(r)[1], RayStep(r)[2])
          IN /\ a \in state.pieces.rooks \cup state.pieces.queens \cup state.pieces.bishops
             /\ king \in reach(a, r, occupied(state.pieces))
             /\ behind # NoSquare
             /\ behind \in last.mask
             /\ behind \notin attacked_by(state.pieces, Not(state.turn), occupied(state.pieces))

(***************************************************************************)
(* Castling over every arrangement of start files: king and both rooks of  *)
(* the side to move on their start squares, the enemy king on its own, at  *)
(* most one friendly knight on the back rank, at most one enemy rook       *)
(* looking down a file at it.                                              *)
(***************************************************************************)
\* the king strictly between the rooks, as init_chess960 arranges them
CastleConfigs ==
    {cfg \in [king_file : 0 .. 7, short_file : 0 .. 7, long_file : 0 .. 7] :
        cfg.long_file < cfg.king_file /\ cfg.king_file < cfg.short_file}

\* all rights, the long ones only, the short ones only
RightsChoices == {15, 10, 5}

\* the rank an enemy rook looks down from
rook_post(turn) == IF turn = "White" THEN 3 ELSE 4

CastlePositions ==
    {[position(<<<<Square_new(back_rank(turn), cfg.king_file), "King", turn>>,
                 <<Square_new(back_rank(turn), cfg.long_file), "Rook", turn>>,
                 <<Square_new(back_rank(turn), cfg.short_file), "Rook", turn>>,
                 <<Square_new(back_rank(Not(turn)), cfg.king_file), "King", Not(turn)>>>>
                \o (IF knight \in {cfg.king_file, cfg.long_file, cfg.short_file, 8} THEN <<>>
                    ELSE <<<<Square_new(back_rank(turn), knight), "Knight", turn>>>>)
                \o (IF rook = 8 THEN <<>>
                    ELSE <<<<Square_new(rook_post(turn), rook), "Rook", Not(turn)>>>>),
               turn, rights) EXCEPT !.castle.settings = cfg] :
        cfg \in CastleConfigs, turn \in Teams, rights \in RightsChoices,
        knight \in 0 .. 8, rook \in 0 .. 8}

CastleInit ==
    /\ state \in CastlePositions
    /\ index = 0
    /\ deltas = <<>>
    /\ last = NoHistory(state)

\* a query of can_castle for one side, and of what compute offers the king
AskCastle(side) ==
    LET turn == state.turn
        king == king_start(state.castle, turn)
        occ == transmit(occupied(state.pieces), state.wormholes)
    IN /\ last.op = "init"
       /\ last' = [last EXCEPT !.op = "can_castle", !.src = king, !.side = side,
                               !.able = can_castle(side, turn, state.castle, defense(state),
                                                   occ, king),
                               !.mask = compute(state, king)]
       /\ UNCHANGED <<state, index, deltas>>

CastleNext == \E side \in Castles : AskCastle(side)

CastleSpec == CastleInit /\ [][CastleNext]_vars

\* the squares of one rank from a to b, both included
span(a, b) ==
    {Square_new(rank_u8(a), f) :
        f \in Min({file_u8(a), file_u8(b)}) .. Max({file_u8(a), file_u8(b)})}

was_capture ==
    \/ intersects(transmit({last.dst}, last.pre.wormholes),
                  on_team(last.pre.pieces, Not(last.pre.turn)))
    \/ last.trace.is_capture_en_passant # NoSquare

\* the move last played moved a pawn
was_pawn_move ==
    piece_at_or_on_hole(last.pre.pieces, last.src, last.pre.wormholes) = "Pawn"

\* C11: after next has applied the delta of a move compute offers, the halfmove clock is
\* 0 if the move is a capture, a pawn move or changes castle rights, and otherwise the
\* previous clock plus one; the fullmove counter grows by one exactly after Black's move.
ClocksAfterNext ==
    (last.op = "play" /\ last.dst \in compute(last.pre, last.src)) =>
        /\ state.halfmoves =
              IF was_capture \/ was_pawn_move \/ state.castle.rights # last.pre.castle.rights
              THEN 0 ELSE last.pre.halfmoves + 1
        /\ state.fullmoves =
              IF last.pre.turn = "Black" THEN last.pre.fullmoves + 1 ELSE last.pre.fullmoves

\* C12: for every move compute offers that changes the castle rights, prev with the
\* move's delta puts the rights back to their value before the move.
RightsRestored ==
    (/\ last.op = "play"
     /\ last.dst \in compute(last.pre, last.src)
     /\ state.castle.rights # last.pre.castle.rights) =>
        prev(state, last.delta).castle.rights = last.pre.castle.rights

\* C13: for every move compute offers, get_prev_ep_sq of the move's delta is the
\* en-passant target of the position the move was played in (none when there was none),
\* and prev sets en_passant to exactly that.
PrevEpSqKept ==
    (last.op = "play" /\ last.dst \in compute(last.pre, last.src)) =>
        /\ get_prev_ep_sq(last.delta) = last.pre.en_passant
        /\ prev(state, last.delta).en_passant = last.pre.en_passant

(***************************************************************************)
(* Chess960 set-up (init.rs, rng.rs). The eight files are shuffled, the    *)
(* shuffle is adjusted, and the back ranks are filled from the result.     *)
(* WyRand::range(i..len) is an input: any value from i to len - 1.         *)
(***************************************************************************)
\* slice.swap(i, j) on a slice indexed from 0
swap(slice, i, j) == [slice EXCEPT ![i + 1] = slice[j + 1], ![j + 1] = slice[i + 1]]

\* WyRand::shuffle from position i on; draws[i + 1] is what range(i..len) returned
RECURSIVE shuffle(_, _, _)
shuffle(slice, draws, i) ==
    IF i >= Len(slice) THEN slice
    ELSE shuffle(swap(slice, i, draws[i + 1]), draws, i + 1)

\* the loop "bishops must be on opposite color squares" from i on
RECURSIVE bishops_loop(_, _)
bishops_loop(indices, i) ==
    IF i < 7 /\ indices[5 + 1] % 2 = indices[6 + 1] % 2
    THEN bishops_loop(swap(indices, i, 5), i + 1)
    ELSE indices

\* init_chess960 once rng.shuffle has returned
init_chess960(shuffled) ==
    LET king_right_of_long(ix) == IF ix[0 + 1] > ix[1 + 1] THEN swap(ix, 0, 1) ELSE ix
        king_left_of_short(ix) == IF ix[1 + 1] > ix[2 + 1] THEN swap(ix, 1, 2) ELSE ix
        p0(ix) == setup_from_file(just_pawns, "Rook", ix[0 + 1])
        p1(ix) == setup_from_file(p0(ix), "King", ix[1 + 1])
        p2(ix) == setup_from_file(p1(ix), "Rook", ix[2 + 1])
        p3(ix) == setup_from_file(p2(ix), "Queen", ix[3 + 1])
        p4(ix) == setup_from_file(p3(ix), "Knight", ix[4 + 1])
        p5(ix) == setup_from_file(p4(ix), "Knight", ix[5 + 1])
        p6(ix) == setup_from_file(p5(ix), "Bishop", ix[6 + 1])
        p7(ix) == setup_from_file(p6(ix), "Bishop", ix[7 + 1])
        built(indices) ==
            [en_passant |-> NoSquare, next_hole |-> NoSquare, hole_in_1 |-> FALSE,
             wormholes |-> {}, fullmoves |-> 1, halfmoves |-> 0,
             pieces |-> p7(indices),
             castle |-> [rights |-> 15,
                         settings |-> [long_file |-> indices[0 + 1],
                                       short_file |-> indices[2 + 1],
                                       king_file |-> indices[1 + 1]]],
             turn |-> "White"]
    IN built(king_left_of_short(king_right_of_long(bishops_loop(shuffled, 0))))

SetupInit ==
    /\ state = DefaultState
    /\ index = 0
    /\ deltas = <<>>
    /\ last = NoHistory(state)

\* a new Chess960 game: the shuffle draws, then init_chess960 builds the position
NewChess960(draws) ==
    /\ \E shuffled \in {shuffle(<<0, 1, 2, 3, 4, 5, 6, 7>>, draws, 0)} :
         /\ state' = init_chess960(shuffled)
         /\ last' = [NoHistory(state) EXCEPT !.op = "init_chess960", !.trace.route = shuffled]
    /\ UNCHANGED <<index, deltas>>

\* the set-up runs once, when the game is created
SetupNext ==
    /\ last.op = "init"
    /\ \E j0 \in 0..7, j1 \in 1..7, j2 \in 2..7, j3 \in 3..7, j4 \in 4..7, j5 \in 5..7,
          j6 \in 6..7 :
           NewChess960(<<j0, j1, j2, j3, j4, j5, j6, 7>>)

SetupSpec == SetupInit /\ [][SetupNext]_vars

\* the files of the back-rank squares of a mask
files_of(m, team) == {file_u8(sq) : sq \in m \cap with_rank(back_rank(team))}

\* C14: for every permutation the shuffle produces, init_chess960 puts each side's two
\* bishops on files of opposite parity.
BishopsOppositeParity ==
    last.op = "init_chess960" =>
        \A team \in Teams :
            \E a, b \in files_of(state.pieces.bishops, team) : a % 2 # b % 2

\* C15: init_chess960 puts the king on a file strictly between the file of the long rook
\* and the file of the short rook, and the castle settings name exactly those files.
KingBetweenRooks ==
    last.op = "init_chess960" =>
        LET s == state.castle.settings
        IN /\ s.long_file < s.king_file /\ s.king_file < s.short_file
           /\ \A team \in Teams :
                /\ files_of(state.pieces.kings, team) = {s.king_file}
                /\ files_of(state.pieces.rooks, team) = {s.long_file, s.short_file}

\* the played move is castling on this side and on no other: the king leaves its start
\* square for the side's rook-start or king-target square while can_castle holds
castled_on(side) ==
    LET pre == last.pre
        turn == pre.turn
        names(s) == {rook_start(pre.castle, s, turn), king_target(pre.castle, s, turn)}
    IN /\ last.op = "play"
       /\ last.src = king_start(pre.castle, turn)
       /\ last.src \in get(pre.pieces, "King", turn)
       /\ last.dst \in names(side)
       /\ \A other \in Castles \ {side} : last.dst \notin names(other)
       /\ can_castle(side, turn, pre.castle, defense(pre), occupied(pre.pieces), last.src)

\* C16: for each side S, a played castling move on S is traced with is_castle = Some(S),
\* its delta decodes through castle_side to S, and next leaves the king and the rook on
\* the king-target and rook-target squares of S.
CastleSideDecoded ==
    \A side \in Castles :
        castled_on(side) =>
            /\ last.trace.is_castle = side
            /\ castle_side(last.delta) = side
            /\ king_target(last.pre.castle, side, last.pre.turn)
                   \in get(state.pieces, "King", last.pre.turn)
            /\ rook_target(last.pre.castle, side, last.pre.turn)
                   \in get(state.pieces, "Rook", last.pre.turn)

\* the kind masks and the side masks that hold a square
kinds_on(p, sq) == {k \in PieceKinds : sq \in p[KindField(k)]}
sides_on(p, sq) == {t \in Teams : sq \in p[TeamField(t)]}

\* C17: in every state reached by next and prev, every square is in at most one kind mask
\* and in at most one side mask, and it is in a kind mask exactly when it is in a side mask.
MasksDisjoint ==
    \A sq \in Squares :
        /\ Cardinality(kinds_on(state.pieces, sq)) <= 1
        /\ Cardinality(sides_on(state.pieces, sq)) <= 1
        /\ (kinds_on(state.pieces, sq) = {}) = (sides_on(state.pieces, sq) = {})

(***************************************************************************)
(* compute over a family of positions: a piece of the side to move on one  *)
(* of the first files, up to two further pieces on the squares beside and  *)
(* ahead of it, the kings on h1 and h8; with and without two live          *)
(* wormholes, and with every en-passant target the position allows.        *)
(***************************************************************************)
\* the piece asked about stands on the files 0 .. MoverFiles - 1
MoverFiles == 2

\* the further pieces stand at most NearAhead ranks ahead of it
NearAhead == 2

Movers ==
    {mv \in Squares \X {"Pawn", "Knight", "Bishop", "Rook", "Queen"} :
        /\ file_u8(mv[1]) < MoverFiles
        /\ mv[2] = "Pawn" => rank_u8(mv[1]) \notin {0, 7}}

\* the squares beside and ahead of m, seen from the side to move
Near(m, turn) ==
    {sq \in Squares \ {m} :
        /\ file_u8(sq) - file_u8(m) \in {0 - 1, 0, 1}
        /\ (rank_u8(sq) - rank_u8(m)) * pawn_dir(turn) \in 0..NearAhead}

\* a kind on a square near m; 64 stands for no piece; no pawn on a back rank
Slot(m, turn, kinds) ==
    {pl \in (Near(m, turn) \X kinds) : pl[2] = "Pawn" => rank_u8(pl[1]) \notin {0, 7}}
        \cup {<<64, "None">>}

\* the live wormholes of the family: none, or a4 and c5
HoleChoices == {{}, {24, 34}}

\* the en-passant targets a position allows: the square an enemy pawn has just passed
\* over in its double push
ep_targets(st) ==
    LET dir == pawn_dir(Not(st.turn))
        occ == occupied(st.pieces)
    IN {Square_new(rank_u8(sq) - dir, file_u8(sq)) :
          sq \in {p \in get(st.pieces, "Pawn", Not(st.turn)) :
                    /\ rank_u8(p) = pawn_rank(Not(st.turn)) + 2 * dir
                    /\ Square_new(rank_u8(p) - dir, file_u8(p)) \notin occ
                    /\ Square_new(rank_u8(p) - 2 * dir, file_u8(p)) \notin occ}}

\* a board with one piece to ask about (mv), an enemy rook or pawn (e) and a friendly
\* knight or second enemy pawn (x) near it
board_of(turn, mv, e, x, holes) ==
    [position(<<<<Square_new(back_rank(turn), 7), "King", turn>>,
                <<Square_new(back_rank(Not(turn)), 7), "King", Not(turn)>>,
                <<mv[1], mv[2], turn>>>>
                 \o piece_entries(e, Not(turn))
                 \o piece_entries(x, IF x[2] = "Knight" THEN turn ELSE Not(turn)),
              turn, 0) EXCEPT !.wormholes = holes]

\* no two pieces on one square, none on a live wormhole, and the king of the side that
\* has just moved not left attacked
well_placed(st, mv, e, x) ==
    /\ mv[1] \notin {e[1], x[1]}
    /\ e[1] = x[1] => e[1] = 64
    /\ ~intersects(occupied(st.pieces), st.wormholes)
    /\ ~intersects(get(st.pieces, "King", Not(st.turn)),
                   attacked_by(st.pieces, st.turn, occupied(st.pieces)))

ComputeInit ==
    /\ \/ state = DefaultState
       \/ \E turn \in Teams, mv \in Movers, holes \in HoleChoices :
            \E e \in Slot(mv[1], turn, {"Rook", "Pawn"}),
               x \in Slot(mv[1], turn, {"Knight", "Pawn"}) :
                \E st \in {board_of(turn, mv, e, x, holes)} :
                    /\ well_placed(st, mv, e, x)
                    /\ \E t \in {NoSquare} \cup ep_targets(st) :
                          state = [st EXCEPT !.en_passant = t]
    /\ index = 0
    /\ deltas = <<>>
    /\ last = NoHistory(state)

\* BoardState::valid_moves (compute) for the square of a piece of the side to move
AskCompute(sq) ==
    /\ last.op = "init"
    /\ last' = [last EXCEPT !.op = "compute", !.src = sq, !.mask = compute(state, sq)]
    /\ UNCHANGED <<state, index, deltas>>

ComputeNext == \E sq \in on_team(state.pieces, state.turn) : AskCompute(sq)

ComputeSpec == ComputeInit /\ [][ComputeNext]_vars

\* the kind of the piece compute was asked about
asked_kind == piece_at(state.pieces, last.src)

\* C18: with no live wormholes, compute for a knight, bishop, rook or queen of the side
\* to move is the raw reach of the piece without the squares of friendly pieces,
\* intersected with blockable for its square; a rook that may castle also gets the
\* square of its king.
ReachWithinBlockable ==
    (/\ last.op = "compute"
     /\ state.wormholes = {}
     /\ asked_kind \in {"Knight", "Bishop", "Rook", "Queen"}) =>
        last.mask =
          ((attacks_from(last.src, asked_kind, state.turn, occupied(state.pieces))
               \ on_team(state.pieces, state.turn))
             \cap blockable(state, last.src))
          \cup (IF asked_kind = "Rook"
                THEN rook_castles(state, state.turn, occupied(state.pieces), last.src)
                ELSE {})

\* the squares one step ahead of a pawn on sq, straight and diagonal
ahead(sq, team, files) ==
    {Square_next(sq, pawn_dir(team), df) : df \in files} \ {NoSquare}

\* C19: with no live wormholes and the side to move neither in check nor the pawn pinned,
\* compute for a pawn is the square one step ahead if it is empty, the square two steps
\* ahead if the pawn is on its home rank and both are empty, and each square diagonally
\* ahead that holds an enemy piece or is the en-passant target; in the start position
\* the e2 pawn gets e3 and e4.
PawnMovesAsStated ==
    /\ (/\ last.op = "compute"
        /\ state.wormholes = {}
        /\ asked_kind = "Pawn"
        /\ ~in_check(state)
        /\ pinners(state, last.src) = {}) =>
           LET team == state.turn
               occ == occupied(state.pieces)
               one == ahead(last.src, team, {0}) \ occ
               two == IF rank_u8(last.src) = pawn_rank(team)
                      THEN UNION {ahead(sq, team, {0}) : sq \in one} \ occ
                      ELSE {}
               takes == {sq \in ahead(last.src, team, {0 - 1, 1}) :
                           sq \in on_team(state.pieces, Not(team)) \/ sq = state.en_passant}
           IN last.mask = one \cup two \cup takes
    /\ (last.op = "compute" /\ state = DefaultState /\ last.src = 12) => last.mask = {20, 28}

\* compute was asked about a pawn that can push and can capture en passant
PawnMovesWitness ==
    /\ last.op = "compute"
    /\ state.wormholes = {}
    /\ asked_kind = "Pawn"
    /\ ~in_check(state)
    /\ pinners(state, last.src) = {}
    /\ state.en_passant \in last.mask
    /\ intersects(ahead(last.src, state.turn, {0}), last.mask)

\* C20: the mask compute returns is closed under wormhole transmission: a mask that
\* holds one live wormhole holds every live wormhole.
ComputeTransmitted ==
    (last.op = "compute" /\ intersects(last.mask, state.wormholes)) =>
        state.wormholes \subseteq last.mask

(***************************************************************************)
(* The building blocks called on their own: masks, rays, move tables, the  *)
(* fields of a delta, and next applied to a delta with wormhole flags.     *)
(***************************************************************************)
\* masks are drawn from the subsets of the squares 0 .. MaskBits - 1
MaskBits == 4

UnitInit ==
    /\ state = DefaultState
    /\ index = 0
    /\ deltas = <<>>
    /\ last = NoHistory(state)

\* m.transmit(w)
AskTransmit(m, w) ==
    /\ last' = [op |-> "transmit", m |-> m, w |-> w, mask |-> transmit(m, w)]
    /\ UNCHANGED <<state, index, deltas>>

\* C21: transmit(m, w) is m | w when m and w share a square, and m when they share
\* none, the empty w included.
TransmitSymmetry ==
    last.op = "transmit" =>
        /\ (\E sq \in last.m : sq \in last.w) =>
              \A sq \in Squares : sq \in last.mask <=> (sq \in last.m \/ sq \in last.w)
        /\ (\A sq \in last.m : sq \notin last.w) => last.mask = last.m

\* transmit was asked for two masks that meet, each holding a square the other lacks
TransmitWitness ==
    /\ last.op = "transmit"
    /\ intersects(last.m, last.w)
    /\ last.m \ last.w # {}
    /\ last.w \ last.m # {}
    /\ last.mask = last.m \cup last.w

\* at most MaxBlockers squares of a ray are occupied
MaxBlockers == 2

\* the occupancies a cast is asked with: up to MaxBlockers squares of the ray, alone,
\* with the source, or with every square off the ray
Occupancies(r, src) ==
    {b \cup extra :
        b \in {c \in SUBSET RAY_EXCLUSIVE[r][src] : Cardinality(c) <= MaxBlockers},
        extra \in {{}, {src}, Squares \ RAY_EXCLUSIVE[r][src]}}

\* r.cast(src, occ) and r.cast_if_hit(src, occ)
AskCast(r, src, occ) ==
    /\ last' = [op |-> "cast", r |-> r, src |-> src, occ |-> occ,
                mask |-> cast(r, src, occ), hit |-> cast_if_hit(r, src, occ)]
    /\ UNCHANGED <<state, index, deltas>>

\* C22: for every direction, source and occupancy, the cast is the squares along the
\* direction from the source, the source excluded, up to and including the first
\* occupied square, or up to the edge of the board when none is occupied; cast_if_hit
\* is None when no square of the ray is occupied and the mask of the cast otherwise.
CastExact ==
    last.op = "cast" =>
        /\ last.mask = reach(last.src, last.r, last.occ)
        /\ last.hit = IF reach(last.src, last.r, {}) \cap last.occ = {}
                      THEN <<FALSE, {}>>
                      ELSE <<TRUE, reach(last.src, last.r, last.occ)>>

\* a cast was asked on a ray with two occupied squares and stops before the edge
CastWitness ==
    /\ last.op = "cast"
    /\ Cardinality(reach(last.src, last.r, {}) \cap last.occ) = 2
    /\ last.mask # reach(last.src, last.r, {})
    /\ last.mask # {}
    /\ last.hit[1]

\* sq.king_moves() and sq.knight_moves()
AskMoves(sq) ==
    /\ last' = [op |-> "moves", src |-> sq, king |-> KING_MOVES[sq],
                knight |-> KNIGHT_MOVES[sq]]
    /\ UNCHANGED <<state, index, deltas>>

\* the distance in ranks and in files between two squares
rank_gap(a, b) ==
    IF rank_u8(a) >= rank_u8(b) THEN rank_u8(a) - rank_u8(b) ELSE rank_u8(b) - rank_u8(a)

file_gap(a, b) ==
    IF file_u8(a) >= file_u8(b) THEN file_u8(a) - file_u8(b) ELSE file_u8(b) - file_u8(a)

\* C26: for every square, the king mask and the knight mask are the squares Square::next
\* gives for the eight offsets of the piece, and Square::next gives a square only when
\* rank and file stay on the board: a king move is one rank or file away at most, a
\* knight move one and two, and none wraps around an edge.
MovesStayOnBoard ==
    last.op = "moves" =>
        /\ last.king = {Square_next(last.src, d[1], d[2]) : d \in KING_DELTAS} \ {NoSquare}
        /\ last.knight = {Square_next(last.src, d[1], d[2]) : d \in KNIGHT_DELTAS} \ {NoSquare}
        /\ last.king = {t \in Squares \ {last.src} :
                          rank_gap(t, last.src) <= 1 /\ file_gap(t, last.src) <= 1}
        /\ last.knight = {t \in Squares :
                            {rank_gap(t, last.src), file_gap(t, last.src)} = {1, 2}}

\* the masks were asked for a corner square, where five king moves and six knight moves
\* leave the board
MovesWitness ==
    /\ last.op = "moves"
    /\ last.src = 7
    /\ last.king = {6, 14, 15}
    /\ last.knight = {13, 22}

\* a kind converted to its number and back, alone and through the capture and the
\* promotion field of a delta
AskPiece(pc) ==
    /\ last' = [op |-> "piece", pc |-> pc, back |-> from_u8(to_u8(pc)),
                captured |-> get_capture_pc(set_capture_pc(DefaultDelta, pc)),
                promoted |-> get_promote_pc(set_promote_pc(DefaultDelta, pc))]
    /\ UNCHANGED <<state, index, deltas>>

\* C28: for every kind p, Piece::from_u8(p.to_u8()) is p, so a captured kind or a
\* promotion kind written into a delta is read back as the same kind.
PieceRoundTrip ==
    last.op = "piece" =>
        /\ last.back = last.pc
        /\ last.captured = last.pc
        /\ last.pc \in {"Knight", "Bishop", "Rook", "Queen"} => last.promoted = last.pc

\* the greatest halfmove clock asked about: the fifty-move rule ends the game there
ClockMax == 100

\* the delta play builds for the knight move b1-c3, marked by the tail
knight_delta(st) ==
    LET built(t) == play_tail(play_delta(st, 1, 18, "None", t), t,
                              play_halfmoves(st, 1, t), TRUE)
    IN built(trace(st, 1, 18))

\* a halfmove count written into a delta and read back, alone and by taking back the
\* knight move b1-c3 played with the clock at h
AskHalfmoves(h) ==
    /\ \E st \in {[Pinned EXCEPT !.halfmoves = h]} :
         \E d \in {knight_delta(st)} :
           last' = [op |-> "halfmoves", h |-> h, pre |-> st, delta |-> d,
                    back |-> get_prev_halfmoves(set_prev_halfmoves(DefaultDelta, h)),
                    restored |-> prev(next(st, d), d).halfmoves]
    /\ UNCHANGED <<state, index, deltas>>

\* C29: for every halfmove count h up to 100, get_prev_halfmoves after
\* set_prev_halfmoves(h) returns h, so prev restores the clock of the position.
ClockRestored ==
    last.op = "halfmoves" =>
        /\ last.back = last.h
        /\ last.restored = last.h

\* the squares a wormhole is queued on in the deltas asked about
HoleSquares == {24, 34}

\* the delta of the knight move b1-c3 with a wormhole marked on it: pushed, popped, about
\* to pop, or any of these together
hole_delta(st, pushed, popped, will_pop, sq) ==
    LET marked(d0) ==
            LET d1 == IF pushed THEN set_pushed_hole(d0, sq) ELSE d0
                d2 == IF popped THEN set_popped_hole(d1, sq) ELSE d1
            IN IF will_pop THEN add_flags(d2, {HOLE_WILL_POP}) ELSE d2
    IN marked(knight_delta(st))

\* BoardState::next with a delta that carries wormhole marks
AskHole(pushed, popped, will_pop, sq) ==
    /\ \E d \in {hole_delta(Pinned, pushed, popped, will_pop, sq)} :
         last' = [op |-> "hole", pre |-> Pinned, delta |-> d, post |-> next(Pinned, d)]
    /\ UNCHANGED <<state, index, deltas>>

\* C27: next on a delta that carries HOLE_WILL_POP yields a state with hole_in_1 true,
\* whether or not the delta also carries HOLE_PUSHED or HOLE_POPPED.
WillPopSetsHoleIn1 ==
    (last.op = "hole" /\ HOLE_WILL_POP \in get_flags(last.delta)) => last.post.hole_in_1

(***************************************************************************)
(* ChessGame::play refusing a move (game.rs): the errors it returns.       *)
(***************************************************************************)
\* ChessGame::end: None in ChessGame::default, and no code assigns it
end == "None"

\* play reporting a move that has no trace as the end of the game
play_error_ended(t, promote) ==
    IF ~t.some THEN "GameEnded"
    ELSE IF promotion_missing(t, promote) THEN "RequiresPromotion"
    ELSE "None"

\* the error play returns, or "None" when it goes on to build the delta
play_error(t, promote) ==
    IF cursor_is_last /\ end # "None" THEN "GameEnded"
    ELSE IF ~t.some THEN "InvalidMove"
    ELSE IF promotion_missing(t, promote) THEN "RequiresPromotion"
    ELSE "None"

\* the promotion arguments a caller can pass: no piece, or any kind
PromotionsAsked == PieceKinds \cup {"None"}

\* the first legal move of a position, in the order of the squares
first_move(st) ==
    CHOOSE mv \in Squares \X Squares : trace(st, mv[1], mv[2]).some

\* the games a refused move is asked in: a new game on each start position, and the game
\* after its first legal move with the cursor on the last position or stepped back
RejectInit ==
    \E st \in StartPositions :
        \/ /\ state = st
           /\ index = 0
           /\ deltas = <<>>
           /\ last = NoHistory(st)
        \/ \E mv \in {first_move(st)} :
             \E d \in {play_tail(play_delta(st, mv[1], mv[2], "None", trace(st, mv[1], mv[2])),
                                 trace(st, mv[1], mv[2]),
                                 play_halfmoves(st, mv[1], trace(st, mv[1], mv[2])), TRUE)} :
               \E back \in BOOLEAN :
                 /\ state = IF back THEN prev(next(st, d), d) ELSE next(st, d)
                 /\ index = IF back THEN 0 ELSE 1
                 /\ deltas = <<d>>
                 /\ last = NoHistory(state)

\* ChessGame::play returning an error: the game is left as it was
PlayRejected(src, dst) ==
    \E t \in {trace(state, src, dst)} :
      \E promote \in IF t.requires_promotion THEN PromotionsAsked ELSE {"None"} :
        /\ play_error(t, promote) # "None"
        /\ last' = [op |-> "play_error", pre |-> state, index |-> index, deltas |-> deltas,
                    end |-> end, src |-> src, dst |-> dst, promote |-> promote,
                    trace |-> t, error |-> play_error(t, promote)]
        /\ UNCHANGED <<state, index, deltas>>

RejectNext ==
    /\ last.op = "init"
    /\ \E src \in Squares, dst \in Squares : PlayRejected(src, dst)

RejectSpec == RejectInit /\ [][RejectNext]_vars

PromotionKindRequired ==
    (last.op = "play" /\ last.trace.requires_promotion) =>
        last.promote \in {"Knight", "Bishop", "Rook", "Queen"}

\* C25: when a rook leaves its castle start square, the rights of the resulting
\* position no longer hold the mover's right on that side; when a rook is captured on
\* its start square, they no longer hold the opponent's right on that side; and a
\* forward move never sets a right the position before it had lost.
RookRightsLost ==
    (/\ last.op = "play"
     /\ last.trace.is_castle = "None"
     /\ last.dst \in compute(last.pre, last.src)) =>
        /\ \A side \in Castles :
             (/\ last.src = rook_start(last.pre.castle, side, last.pre.turn)
              /\ last.src \in get(last.pre.pieces, "Rook", last.pre.turn)) =>
                 ~has_right(state.castle, side, last.pre.turn)
        /\ \A side \in Castles :
             (/\ last.dst = rook_start(last.pre.castle, side, Not(last.pre.turn))
              /\ last.dst \in get(last.pre.pieces, "Rook", Not(last.pre.turn))) =>
                 ~has_right(state.castle, side, Not(last.pre.turn))
        /\ \A side \in Castles, team \in Teams :
             has_right(state.castle, side, team) => has_right(last.pre.castle, side, team)

\* the move just played was a pawn's double push
double_pushed ==
    /\ last.src \in last.pre.pieces.pawns
    /\ file_gap(last.src, last.dst) = 0
    /\ rank_gap(last.src, last.dst) = 2

\* C30: in every state next produces, en_passant is Some(t) exactly when the move just
\* applied was a pawn's double push, t being the square the pawn passed over; after
\* any other move, one played while a target existed included, en_passant is None.
EnPassantOnlyAfterDoublePush ==
    (last.op = "play" /\ last.dst \in compute(last.pre, last.src)) =>
        /\ (double_pushed /\ IS_DOUBLE_PUSH \in get_flags(last.delta)) =>
              state.en_passant = Square_add(last.src, pawn_dir(last.pre.turn), 0)
        /\ ~double_pushed => state.en_passant = NoSquare

UnitNext ==
    /\ last.op = "init"
    /\ \/ \E m \in SUBSET (0 .. MaskBits - 1), w \in SUBSET (0 .. MaskBits - 1) :
            AskTransmit(m, w)
       \/ \E r \in Rays, src \in Squares : \E occ \in Occupancies(r, src) :
            AskCast(r, src, occ)
       \/ \E sq \in Squares : AskMoves(sq)
       \/ \E pc \in PieceKinds : AskPiece(pc)
       \/ \E h \in 0 .. ClockMax : AskHalfmoves(h)
       \/ \E pushed \in BOOLEAN, popped \in BOOLEAN, will_pop \in BOOLEAN, sq \in HoleSquares :
            AskHole(pushed, popped, will_pop, sq)

UnitSpec == UnitInit /\ [][UnitNext]_vars

=============================================================================
